---- MODULE Spec2Model ----
(***************************************************************************)
(* Installation-id cache of GitHubAppService (lib/github-app) and the      *)
(* webhook-driven review workflow (api/webhooks/github) of mega-miyya.     *)
(*                                                                         *)
(* SpecCache  : getInstallationIdForRepo / clearInstallationCache /        *)
(*              clearAllInstallationCache / the webhook's installation     *)
(*              branch, with concurrent resolve calls and a clock.         *)
(***************************************************************************)
EXTENDS Integers, Sequences, FiniteSets, TLC

\* ---------------------------------------------------------------- bounds
\* Number of clock advances explored.
MaxTicks == 2
\* Longest repository list carried by an installation event.
MaxRepoList == 1

\* ------------------------------------------------------- program constants
\* private readonly CACHE_TTL = 24 * 60 * 60 * 1000
CACHE_TTL == 24 * 60 * 60 * 1000

\* ------------------------------------------------------------ input domains
Owners == {"acme", "beta"}
RepoNames == {"api", "web"}
\* repo.full_name, already split on "/": <<owner, repoName>>
FullNames == {<<o, r>> : o \in Owners, r \in RepoNames}
\* data.id values the installation endpoint may answer with
InstallIds == {11, 22}
\* non-success statuses of the installation endpoint
FailStatuses == {404, 500}
\* concurrent invocations of getInstallationIdForRepo
Callers == {"c1", "c2"}
\* Date.now() advances in steps of half a TTL, so that an entry stored at 0 is
\* seen strictly before and exactly at its expiry (with MaxTicks steps of the
\* clock; one step more and it is seen past its expiry).
TickStep == CACHE_TTL \div 2

None == [none |-> TRUE]

\* x-hub-signature-256 as the handler sees it: absent, the HMAC of the body,
\* a different digest of the same length, or a string of another length
SigKinds == {"absent", "valid", "forged", "malformed"}
\* payload.action of an installation event
InstallationActions == {"created", "deleted", "suspend"}

RECURSIVE SeqsUpTo(_, _)
SeqsUpTo(S, n) ==
  IF n = 0 THEN {<<>>}
  ELSE LET shorter == SeqsUpTo(S, n - 1)
       IN shorter \cup {Append(q, x) : q \in {p \in shorter : Len(p) = n - 1}, x \in S}

\* repositories an installation event may list (repo.full_name)
EventRepos == {<<"acme", "api">>, <<"beta", "web">>}
\* payload.repositories of an installation event
RepoLists == SeqsUpTo(EventRepos, MaxRepoList)

VARIABLES
  configured,         \* this.config.appId && this.config.privateKey
  installationCache,  \* Map<string, InstallationCache>
  now,                \* Date.now()
  calls,              \* per caller: the getInstallationIdForRepo invocation
  lastResponse,       \* history: the webhook handler's last NextResponse
  lastStore,          \* history: per owner, the latest store not invalidated since
  storedAt,           \* history: per owner and id, when that id was last stored
  pendingInval,       \* history: per owner, invalidation with no resolve started since
  lastFailure,        \* history: per owner, a lookup failed and no resolve started since
  track,              \* which history variables this specification records
  reviews,            \* the CodeReview collection
  slots,              \* per webhook worker: the request being handled, then its review run
  parser,             \* a generated text and what parseAIResponse returns for it
  post                \* the POST /api/reviews request being handled

vars == <<configured, installationCache, now, calls, lastResponse,
          lastStore, storedAt, pendingInval, lastFailure, track, reviews, slots, parser, post>>

\* a history variable is updated only in the specifications that record it
Rec(name, new, old) == IF name \in track THEN new ELSE old

\* ------------------------------------------------------------ Map helpers
EmptyCache == [k \in {} |-> None]

MapSet(m, k, v) == [x \in (DOMAIN m) \cup {k} |-> IF x = k THEN v ELSE m[x]]

MapDelete(m, k) == [x \in (DOMAIN m) \ {k} |-> m[x]]

\* ------------------------------------------------- getInstallationIdForRepo
\* "Cache by owner only": const cacheKey = owner
cacheKeyPerRepo(owner, repo) == <<owner, repo>>
cacheKey(owner, repo) == <<owner>>

\* cached && cached.expiresAt > Date.now()
cacheValidAtExpiry(cache, key, t) == key \in DOMAIN cache /\ cache[key].expiresAt >= t
cacheValid(cache, key, t) == key \in DOMAIN cache /\ cache[key].expiresAt > t

\* return cached.installationId
cachedIdZero(cache, key) == 0
cachedId(cache, key) == cache[key].installationId

\* this.installationCache.set(cacheKey, {installationId, expiresAt: Date.now() + CACHE_TTL})
cacheStoreFirstWins(cache, key, id, t) ==
  IF key \in DOMAIN cache THEN cache
  ELSE MapSet(cache, key, [installationId |-> id, expiresAt |-> t + CACHE_TTL])
cacheStore(cache, key, id, t) ==
  MapSet(cache, key, [installationId |-> id, expiresAt |-> t + CACHE_TTL])

\* the cache after a lookup that answered with a non-success status: the throw
\* of fetchInstallationIdFromGitHub skips the set
cacheAfterFailNegative(cache, key, t) ==
  MapSet(cache, key, [installationId |-> 0, expiresAt |-> t + CACHE_TTL])
cacheAfterFail(cache, key, t) == cache

\* clearInstallationCache(owner, repo?)
clearInstallationCache(cache, owner) == MapDelete(cache, cacheKey(owner, ""))

\* clearAllInstallationCache()
clearAllInstallationCache(cache) == EmptyCache

\* for (const repo of repositories) githubAppService.clearInstallationCache(owner)
RECURSIVE clearForRepositories(_, _)
clearForRepositories(cache, repositories) ==
  IF repositories = <<>> THEN cache
  ELSE clearForRepositories(clearInstallationCache(cache, Head(repositories)[1]),
                            Tail(repositories))

\* the owners named by a repository list
OwnersIn(repositories) == {repositories[i][1] : i \in DOMAIN repositories}

\* verifyWebhookSignature(body, signature): "pass" (true), "reject" (false),
\* or "throw" (timingSafeEqual on buffers of different length)
verifyWebhookSignature(sig, secretSet) ==
  IF sig = "absent" \/ ~secretSet THEN "pass"
  ELSE IF sig = "valid" THEN "pass"
  ELSE IF sig = "forged" THEN "reject"
  ELSE "throw"

\* the NextResponse of a webhook request, with the event it answered, the
\* request's signature header and whether GITHUB_WEBHOOK_SECRET is set; n tells
\* two consecutive equal responses apart
NoResponse ==
  [message |-> "", action |-> "", repositories |-> <<>>, sig |-> "", secretSet |-> FALSE,
   n |-> 0]
Response(message, action, repositories, sig, secretSet) ==
  [message |-> message, action |-> action, repositories |-> repositories,
   sig |-> sig, secretSet |-> secretSet, n |-> 1 - lastResponse.n]

IdleCall == [pc |-> "idle", owner |-> "", repo |-> "", result |-> 0,
             hit |-> FALSE, lookups |-> 0, stale |-> FALSE]

\* entries of the cache that belong to one owner
EntriesOf(cache, owner) == {k \in DOMAIN cache : k[1] = owner}

NoStoredAt == [id \in InstallIds |-> -1]

\* getInstallationIdForRepo up to its first await (lines 74-87, 102-116)
ResolveStart(c, owner, repo) ==
  /\ calls[c].pc = "idle"
  /\ LET key == cacheKey(owner, repo)
         started == [IdleCall EXCEPT !.owner = owner, !.repo = repo,
                       !.stale = Rec("store", key \in DOMAIN installationCache, FALSE)]
     IN
     IF cacheValid(installationCache, key, now)
     THEN calls' = [calls EXCEPT ![c] =
                      [started EXCEPT !.pc = "returned", !.hit = TRUE, !.stale = FALSE,
                                      !.result = cachedId(installationCache, key)]]
     ELSE IF ~configured
     THEN calls' = [calls EXCEPT ![c] = [started EXCEPT !.pc = "threw"]]
     ELSE calls' = [calls EXCEPT ![c] = [started EXCEPT !.pc = "fetching", !.lookups = 1]]
  /\ pendingInval' = Rec("inval", [pendingInval EXCEPT ![owner] = "none"], pendingInval)
  /\ lastFailure' = Rec("fail", [lastFailure EXCEPT ![owner] = "no"], lastFailure)
  /\ UNCHANGED <<configured, installationCache, now, lastResponse,
                 lastStore, storedAt, track, reviews, slots, parser, post>>

\* the installation lookup answers 200 with data.id = id (lines 123-124, 89-96)
LookupOk(c, id) ==
  /\ calls[c].pc = "fetching"
  /\ LET owner == calls[c].owner
         key == cacheKey(owner, calls[c].repo)
     IN
     /\ installationCache' = cacheStore(installationCache, key, id, now)
     /\ calls' = [calls EXCEPT ![c].pc = "returned", ![c].result = id]
     /\ lastStore' = Rec("store",
                         [lastStore EXCEPT ![owner] =
                            [id |-> id, at |-> now, repo |-> calls[c].repo]],
                         lastStore)
     /\ storedAt' = Rec("ids", [storedAt EXCEPT ![owner][id] = now], storedAt)
     /\ lastFailure' = Rec("fail",
                           [lastFailure EXCEPT ![owner] =
                              IF @ = "no" THEN "no" ELSE "overtaken"],
                           lastFailure)
  /\ UNCHANGED <<configured, now, lastResponse, pendingInval, track, reviews, slots, parser, post>>

\* the installation lookup answers with a non-success status (lines 118-121)
LookupFail(c, st) ==
  /\ calls[c].pc = "fetching"
  /\ LET owner == calls[c].owner
         key == cacheKey(owner, calls[c].repo)
     IN
     /\ installationCache' = cacheAfterFail(installationCache, key, now)
     /\ calls' = [calls EXCEPT ![c].pc = "threw"]
     /\ lastFailure' = Rec("fail",
                           [lastFailure EXCEPT ![owner] =
                              IF cacheValid(installationCache, key, now)
                              THEN "overtaken" ELSE "clean"],
                           lastFailure)
  /\ UNCHANGED <<configured, now, lastResponse, lastStore, storedAt, pendingInval, track, reviews, slots, parser, post>>

\* the caller's continuation takes the settled promise (return / throw)
Return(c) ==
  /\ calls[c].pc \in {"returned", "threw"}
  /\ calls' = [calls EXCEPT ![c] = IdleCall]
  /\ UNCHANGED <<configured, installationCache, now, lastResponse,
                 lastStore, storedAt, pendingInval, lastFailure, track, reviews, slots, parser, post>>

\* history of an invalidation of the owners in S, from source src
Invalidated(S, src) ==
  /\ lastStore' = Rec("store", [o \in Owners |-> IF o \in S THEN None ELSE lastStore[o]],
                      lastStore)
  /\ storedAt' = Rec("ids", [o \in Owners |-> IF o \in S THEN NoStoredAt ELSE storedAt[o]],
                     storedAt)
  /\ pendingInval' = Rec("inval",
                         [o \in Owners |-> IF o \in S THEN src ELSE pendingInval[o]],
                         pendingInval)

\* githubAppService.clearInstallationCache(owner) (lines 154-158)
ClearInstallationCache(owner) ==
  /\ installationCache' = clearInstallationCache(installationCache, owner)
  /\ Invalidated({owner}, "clear")
  /\ UNCHANGED <<configured, now, calls, lastResponse, lastFailure, track, reviews, slots, parser, post>>

\* githubAppService.clearAllInstallationCache() (lines 163-166)
ClearAllInstallationCache ==
  /\ installationCache' = clearAllInstallationCache(installationCache)
  /\ Invalidated(Owners, "all")
  /\ UNCHANGED <<configured, now, calls, lastResponse, lastFailure, track, reviews, slots, parser, post>>

\* POST /api/webhooks/github with x-github-event: installation (lines 130-162, 232-235)
InstallationEvent(sig, secretSet, action, repositories) ==
  LET verdict == verifyWebhookSignature(sig, secretSet) IN
  /\ IF verdict = "pass" /\ action = "deleted"
     THEN /\ installationCache' = clearForRepositories(installationCache, repositories)
          /\ Invalidated(OwnersIn(repositories), "webhook")
     ELSE UNCHANGED <<installationCache, lastStore, storedAt, pendingInval>>
  /\ lastResponse' =
       Rec("resp",
           IF verdict = "reject" THEN Response("Invalid signature", "", <<>>, sig, secretSet)
           ELSE IF verdict = "throw"
           THEN Response("Internal server error", "", <<>>, sig, secretSet)
           ELSE Response("Installation event processed", action, repositories, sig,
                         secretSet),
           lastResponse)
  /\ UNCHANGED <<configured, now, calls, lastFailure, track, reviews, slots, parser, post>>

\* Date.now() moves on
Tick ==
  /\ now < MaxTicks * TickStep
  /\ now' = now + TickStep
  /\ UNCHANGED <<configured, installationCache, calls, lastResponse,
                 lastStore, storedAt, pendingInval, lastFailure, track, reviews, slots, parser, post>>

\* positions of a review run that has started and not ended
RunPcs ==
  {"direct", "lookup", "exchange", "listing", "contents", "generating", "saving",
   "commenting"}

\* a webhook request slot: the handler's position, then its review run's
IdleSlot ==
  [pc |-> "idle", action |-> "", pr |-> 0, instId |-> 0, existing |-> 0,
   reviewId |-> 0, response |-> "", token |-> "", files |-> <<>>, fetched |-> <<>>,
   write |-> None, after |-> "", saved |-> "", log |-> <<>>, jwts |-> <<>>,
   arrived |-> <<>>, given |-> <<>>, latest |-> FALSE, wrote |-> None,
   overlap |-> FALSE]

\* no POST /api/reviews request is being handled
IdlePost == [pc |-> "idle", pullRequestId |-> 0, repositoryId |-> 0, repositoryName |-> <<>>]

\* no text is being parsed
NoParse == [wrap |-> "", object |-> None, response |-> None, result |-> None]

Init(callers, workers) ==
  /\ configured \in BOOLEAN
  /\ installationCache = EmptyCache
  /\ now = 0
  /\ calls = [c \in callers |-> IdleCall]
  /\ lastResponse = NoResponse
  /\ lastStore = [o \in Owners |-> None]
  /\ storedAt = [o \in Owners |-> NoStoredAt]
  /\ pendingInval = [o \in Owners |-> "none"]
  /\ lastFailure = [o \in Owners |-> "no"]
  /\ reviews = {}
  /\ slots = [w \in workers |-> IdleSlot]
  /\ post = IdlePost

NextCache ==
  \/ \E c \in DOMAIN calls, o \in Owners, r \in RepoNames : ResolveStart(c, o, r)
  \/ \E c \in DOMAIN calls, id \in InstallIds : LookupOk(c, id)
  \/ \E c \in DOMAIN calls, st \in FailStatuses : LookupFail(c, st)
  \/ \E c \in DOMAIN calls : Return(c)
  \/ \E o \in Owners : ClearInstallationCache(o)
  \/ ClearAllInstallationCache
  \/ Tick

\* the resolver with the store and failure history
SpecCache ==
  Init(Callers, {}) /\ track = {"store", "ids", "fail"} /\ parser = NoParse
    /\ [][NextCache]_vars

\* ===================================================== the review workflow
\* payload.repository of a pull_request event: full_name (split on "/") and id
Repository == [full_name |-> <<"acme", "api">>, id |-> 1]
\* pull_request.id of the events delivered
PullRequests == {7, 8}
\* payload.installation?.id: 0 stands for an event that carries none
EventInstallIds == {0, 11}
\* x-github-event values other than "installation"
EventKinds == {"pull_request", "push"}
\* payload.action of a pull_request event
PullRequestActions == {"opened", "synchronize", "reopened", "closed"}
\* process.env.AI_PROVIDER and, for huggingface, HUGGINGFACE_PROVIDER
Providers == {"openai", "ollama", "huggingface"}
HfProviders == {"novita", "together"}
\* concurrent webhook requests
Workers == {"w1", "w2"}

\* file names of a pull request, split on "."
ReadmeMd == <<"README", "md">>
MainTs == <<"main", "ts">>
AppJS == <<"App", "JS">>
Makefile == <<"Makefile">>
\* the answers of the changed-file listing
FileLists == {<<>>, <<ReadmeMd, Makefile>>, <<MainTs>>, <<MainTs, ReadmeMd, AppJS>>}

\* const codeExtensions = [...] (line 296)
codeExtensions ==
  {"js", "ts", "jsx", "tsx", "py", "java", "cpp", "c", "cs", "php", "rb", "go", "rs",
   "swift", "kt", "scala", "clj", "hs", "ml", "f90", "r", "m", "pl", "sh", "bash",
   "zsh", "fish", "ps1", "bat", "cmd", "sql", "html", "css", "scss", "sass", "less",
   "vue", "svelte", "astro"}

\* String.prototype.toLowerCase on the segments used
toLowerCase(str) ==
  CASE str = "README" -> "readme"
    [] str = "JS" -> "js"
    [] str = "App" -> "app"
    [] str = "Makefile" -> "makefile"
    [] OTHER -> str

\* file.filename.split('.').pop()?.toLowerCase() is one of codeExtensions
isCodeFile(filename) == toLowerCase(filename[Len(filename)]) \in codeExtensions

\* files.filter(...) (lines 294-298)
codeFilesAll(files) == files
codeFilesOf(files) == SelectSeq(files, isCodeFile)

\* the review payloads written by processAICodeReview
NoCodeReview ==
  [summary |-> "No code files to review", score |-> 100,
   suggestions |-> <<>>, issues |-> <<>>]
FetchFailedReview ==
  [summary |-> "Unable to fetch file contents for review", score |-> 0,
   suggestions |-> <<>>, issues |-> <<>>]
FailedReview ==
  [summary |-> "Review failed due to an error", score |-> 0,
   suggestions |-> <<>>, issues |-> <<>>]
\* what generateOpenAIReview / generateOllamaReview return from their catch
GenerationFailedReview ==
  [summary |-> "Failed to generate AI review due to an error", score |-> 0,
   suggestions |-> <<>>, issues |-> <<>>, positiveAspects |-> <<>>]
\* generateHuggingFaceReview with a provider other than novita
UnsupportedProviderReview ==
  [summary |-> "Hugging Face provider 'together' is not supported. Set HUGGINGFACE_PROVIDER=novita for Novita API.",
   score |-> 0,
   suggestions |-> <<>>, issues |-> <<>>, positiveAspects |-> <<>>]
\* results of parseAIResponse on the generated text
ParsedReview ==
  [summary |-> "Looks good", score |-> 85,
   suggestions |-> <<>>, issues |-> <<>>, positiveAspects |-> <<"Good naming">>]
UnparsedReview ==
  [summary |-> "Unable to parse AI review response", score |-> 0,
   suggestions |-> <<>>, issues |-> <<>>, positiveAspects |-> <<>>]
\* what the text-generation call produces: a remote error (the request fails or
\* is answered with a status that is not ok), an answer without text (the text
\* is absent or empty), or text that parseAIResponse turns into a result
GenerationOutcomes == {"error", "empty", "text", "garbage"}

\* generateAICodeReview(request) (part_001 lines 55-200): the review returned,
\* or "throw". generateOpenAIReview and generateHuggingFaceReview throw on an
\* answer without text (lines 95-97, 190-192); generateOllamaReview has no such
\* check and hands the absent or empty text to parseAIResponse, which returns
\* its fallback (lines 133, 329-340)
generateAICodeReview(provider, hfProvider, outcome) ==
  LET parsed == IF outcome = "text" THEN ParsedReview ELSE UnparsedReview IN
  IF provider = "huggingface"
  THEN IF hfProvider # "novita" THEN [threw |-> FALSE, review |-> UnsupportedProviderReview]
       ELSE IF outcome \in {"error", "empty"} THEN [threw |-> TRUE, review |-> None]
       ELSE [threw |-> FALSE, review |-> parsed]
  ELSE IF provider = "ollama"
  THEN IF outcome = "error" THEN [threw |-> FALSE, review |-> GenerationFailedReview]
       ELSE [threw |-> FALSE, review |-> parsed]
  ELSE IF outcome \in {"error", "empty"}
       THEN [threw |-> FALSE, review |-> GenerationFailedReview]
       ELSE [threw |-> FALSE, review |-> parsed]

\* the provider's function enters its catch and logs "review generation failed"
\* (lines 100-101, 134-135, 196-197); generateHuggingFaceReview makes no call
\* for a provider other than novita
generationCallFailed(provider, hfProvider, outcome) ==
  IF provider = "huggingface" THEN hfProvider = "novita" /\ outcome \in {"error", "empty"}
  ELSE IF provider = "ollama" THEN outcome = "error"
  ELSE outcome \in {"error", "empty"}

\* the text-generation call was made and was answered with a remote error or
\* without text: the entry of the run's history, kept by the specifications
\* that track "answer"
generationAnswer(provider, hfProvider, outcome) ==
  Rec("answer",
      IF provider = "huggingface" /\ hfProvider # "novita" THEN <<>>
      ELSE IF outcome = "error" THEN <<"answer:error">>
      ELSE IF outcome = "empty" THEN <<"answer:empty">>
      ELSE <<>>,
      <<>>)

\* CodeReviewModel.findOne({repositoryId, pullRequestId}): the _id found, or 0
findReview(repositoryId, pullRequestId) ==
  IF \E r \in reviews : r.repositoryId = repositoryId /\ r.pullRequestId = pullRequestId
  THEN (CHOOSE r \in reviews :
          r.repositoryId = repositoryId /\ r.pullRequestId = pullRequestId).id
  ELSE 0

\* CodeReviewSchema.index({pullRequestId: 1, repositoryId: 1}, {unique: true}):
\* whether an insert of this pair is refused with a duplicate-key error
uniqueIndexAbsent(repositoryId, pullRequestId) == FALSE
uniqueIndexRefuses(repositoryId, pullRequestId) ==
  \E r \in reviews : r.repositoryId = repositoryId /\ r.pullRequestId = pullRequestId

\* new CodeReviewModel({...status: 'pending'}) with a fresh _id
newReview(repositoryId, pullRequestId) ==
  [id |-> Cardinality(reviews) + 1, repositoryId |-> repositoryId,
   pullRequestId |-> pullRequestId, repositoryName |-> Repository.full_name,
   status |-> "pending", review |-> None]

\* findByIdAndUpdate(existingReview._id, {status: 'pending', updatedAt}) (lines 205-212)
resetKeepsStatus(id) == reviews
resetToPending(id) ==
  {IF r.id = id THEN [r EXCEPT !.status = "pending"] ELSE r : r \in reviews}

\* findByIdAndUpdate(reviewId, {status, review: reviewData, updatedAt}) (lines 389-393)
updateStatusOnly(id, status, reviewData) ==
  {IF r.id = id THEN [r EXCEPT !.status = status] ELSE r : r \in reviews}
updateReview(id, status, reviewData) ==
  {IF r.id = id THEN [r EXCEPT !.status = status, !.review = reviewData] ELSE r :
     r \in reviews}

\* the run's history, kept by the specifications that track "log"
Logged(log, entries) == Rec("log", log \o entries, log)

\* a run that has ended: its locals are gone, unless the history is tracked
finished(s) ==
  Rec("log", s,
      [IdleSlot EXCEPT !.pc = "done", !.response = s.response, !.latest = s.latest,
                       !.wrote = s.wrote, !.overlap = s.overlap])

\* the catch of processAICodeReview: await updateReviewStatus(reviewId, 'failed', {...})
failSilently(s, why) == finished([s EXCEPT !.pc = "done", !.log = Logged(@, <<why>>)])
failAsCompleted(s, why) ==
  [s EXCEPT !.pc = "saving", !.write = [status |-> "completed", review |-> FailedReview],
            !.after = "done", !.log = Logged(@, <<why, "write:completed">>)]
fail(s, why) ==
  [s EXCEPT !.pc = "saving", !.write = [status |-> "failed", review |-> FailedReview],
            !.after = "done", !.log = Logged(@, <<why, "write:failed">>)]

\* generateJWT() at Date.now() = t (next.config.js lines 39-52): the payload of the
\* assertion
generateJWT(t) == [iat |-> t \div 1000, exp |-> (t \div 1000) + 600, iss |-> "appId"]

\* const jwt = generateJWT() followed by the fetch that carries it as its bearer:
\* the run's history of authenticated calls, kept by the specifications that
\* track "jwt"; signing numbers the invocations of generateJWT within the run
reuseJWT(s, call) ==
  [s EXCEPT !.jwts =
     Rec("jwt",
         Append(@, IF @ = <<>>
                   THEN [call |-> call, at |-> now, signing |-> 1, jwt |-> generateJWT(now)]
                   ELSE [@[Len(@)] EXCEPT !.call = call, !.at = now]),
         @)]
signFor(s, call) ==
  [s EXCEPT !.jwts =
     Rec("jwt",
         Append(@, [call |-> call, at |-> now, signing |-> Len(@) + 1,
                    jwt |-> generateJWT(now)]),
         @)]

\* the catch of the direct exchange (lines 269-273), were it to try the direct
\* exchange once more before falling back
retryDirect(s) ==
  IF "log" \in track /\ Len(SelectSeq(s.log, LAMBDA e : e = "direct")) < 2 /\ configured
  THEN [s EXCEPT !.pc = "direct", !.log = Logged(@, <<"direct">>)]
  ELSE [s EXCEPT !.pc = "exchange", !.log = Logged(@, <<"resolver", "exchange">>)]
\* githubAppService.getInstallationTokenForRepo(owner, repo) up to its first
\* await: the cache check of getInstallationIdForRepo, then either the token
\* request for the cached id or the installation lookup
enterResolver(s) ==
  LET key == cacheKey(Repository.full_name[1], Repository.full_name[2])
      t == [s EXCEPT !.log = Logged(@, <<"resolver">>)]
  IN
  IF cacheValid(installationCache, key, now)
  THEN IF configured
       THEN signFor([t EXCEPT !.pc = "exchange", !.log = Logged(@, <<"exchange">>)],
                    "exchange")
       ELSE fail(t, "resolver:failed")
  ELSE IF configured
       THEN signFor([t EXCEPT !.pc = "lookup", !.log = Logged(@, <<"lookup">>)], "lookup")
       ELSE fail(t, "resolver:failed")

\* processAICodeReview up to its first await (lines 238-274)
\* log: "start", then "direct" for the direct exchange attempted and
\* "direct:failed" for its failure (generateJWT throwing included), "resolver"
\* for the call of getInstallationTokenForRepo
skipDirectExchange(s) == enterResolver([s EXCEPT !.log = Logged(@, <<"start">>)])
startRun(s) ==
  IF s.instId # 0
  THEN IF configured
       THEN signFor([s EXCEPT !.pc = "direct", !.log = Logged(@, <<"start", "direct">>)],
                    "direct")
       ELSE enterResolver([s EXCEPT !.log = Logged(@, <<"start", "direct", "direct:failed">>)])
  ELSE enterResolver([s EXCEPT !.log = Logged(@, <<"start">>)])

\* the bearer token is in hand: the changed-file listing is requested (lines 276-285)
listFiles(s, token) ==
  [s EXCEPT !.pc = "listing", !.token = token, !.log = Logged(@, <<"list">>)]

storeFrame == <<configured, now, calls, lastResponse, lastStore, storedAt,
                pendingInval, lastFailure, track, parser>>
reviewFrame == <<storeFrame, post>>

\* POST /api/webhooks/github for an event other than "installation", up to the
\* answer of CodeReviewModel.findOne (lines 130-199)
Deliver(w, sig, secretSet, event, action, dbUp, enabled, pr, instId) ==
  /\ slots[w].pc \in {"idle", "done"}
  /\ LET verdict == verifyWebhookSignature(sig, secretSet)
         req == [IdleSlot EXCEPT !.pc = "done", !.action = action, !.pr = pr,
                                 !.instId = instId, !.latest = slots[w].latest,
                                 !.wrote = slots[w].wrote,
                                 !.overlap =
                                   Rec("runs",
                                       /\ action \in {"synchronize", "reopened"}
                                       /\ \E v \in DOMAIN slots \ {w} :
                                            slots[v].pc \in RunPcs,
                                       FALSE)]
         existing == findReview(Repository.id, pr)
     IN
     slots' = [slots EXCEPT ![w] =
       IF verdict = "reject" THEN [req EXCEPT !.response = "Invalid signature"]
       ELSE IF verdict = "throw" THEN [req EXCEPT !.response = "Internal server error"]
       ELSE IF event # "pull_request" THEN [req EXCEPT !.response = "Event ignored"]
       ELSE IF action \notin {"opened", "synchronize", "reopened"}
       THEN [req EXCEPT !.response = "Action ignored"]
       ELSE IF ~dbUp THEN [req EXCEPT !.response = "Internal server error"]
       ELSE IF ~enabled THEN [req EXCEPT !.response = "Repository not enabled"]
       ELSE IF existing # 0 /\ action = "opened"
       THEN [req EXCEPT !.response = "Review already exists", !.existing = existing]
       ELSE [req EXCEPT !.pc = "write", !.existing = existing]]
  /\ UNCHANGED <<installationCache, reviews>>
  /\ UNCHANGED reviewFrame

\* the store applies the handler's write: findByIdAndUpdate of the record found,
\* or save() of a new one (lines 201-222); a refused save ends in the catch
WriteRecord(w, dbUp) ==
  /\ slots[w].pc = "write"
  /\ LET s == slots[w] IN
     IF ~dbUp
     THEN /\ slots' = [slots EXCEPT ![w] =
                         [s EXCEPT !.pc = "done", !.response = "Internal server error"]]
          /\ UNCHANGED reviews
     ELSE IF s.existing # 0
     THEN /\ reviews' = resetToPending(s.existing)
          /\ slots' = [slots EXCEPT ![w] =
                         [s EXCEPT !.pc = "written", !.reviewId = s.existing]]
     ELSE IF uniqueIndexRefuses(Repository.id, s.pr)
     THEN /\ slots' = [slots EXCEPT ![w] =
                         [s EXCEPT !.pc = "done", !.response = "Internal server error"]]
          /\ UNCHANGED reviews
     ELSE /\ reviews' = reviews \cup {newReview(Repository.id, s.pr)}
          /\ slots' = [slots EXCEPT ![w] =
                         [s EXCEPT !.pc = "written",
                                   !.reviewId = newReview(Repository.id, s.pr).id]]
  /\ UNCHANGED installationCache
  /\ UNCHANGED reviewFrame

\* new CodeReviewModel({pullRequestId, repositoryId, repositoryName,
\* status: 'pending'}) with a fresh _id (reviews/route.ts lines 85-90)
createReview(pullRequestId, repositoryId, repositoryName) ==
  [id |-> Cardinality(reviews) + 1, repositoryId |-> repositoryId,
   pullRequestId |-> pullRequestId, repositoryName |-> repositoryName,
   status |-> "pending", review |-> None]

\* POST /api/reviews up to the answer of CodeReviewModel.findOne (reviews/route.ts
\* lines 57-82); 0 and <<>> stand for a field that the body lacks. A body
\* without one of the three fields is answered 400, a failing connectDB 500, a
\* pair that has a record 409; otherwise the request goes on to save a record.
ReviewsPOST(pullRequestId, repositoryId, repositoryName, dbUp) ==
  /\ post.pc = "idle"
  /\ post' =
       IF pullRequestId = 0 \/ repositoryId = 0 \/ repositoryName = <<>> THEN post
       ELSE IF ~dbUp THEN post
       ELSE IF findReview(repositoryId, pullRequestId) # 0 THEN post
       ELSE [pc |-> "save", pullRequestId |-> pullRequestId,
             repositoryId |-> repositoryId, repositoryName |-> repositoryName]
  /\ UNCHANGED <<installationCache, reviews, slots>>
  /\ UNCHANGED storeFrame

\* await review.save() settles (reviews/route.ts lines 84-107): the pending
\* record is inserted and the answer is 201, or the store fails or the unique
\* index refuses the pair, and the answer is 500
ReviewsSave(dbUp) ==
  /\ post.pc = "save"
  /\ reviews' =
       IF dbUp /\ ~uniqueIndexRefuses(post.repositoryId, post.pullRequestId)
       THEN reviews \cup {createReview(post.pullRequestId, post.repositoryId,
                                       post.repositoryName)}
       ELSE reviews
  /\ post' = IdlePost
  /\ UNCHANGED <<installationCache, slots>>
  /\ UNCHANGED storeFrame

\* processAICodeReview(...) without await, then return NextResponse.json(...):
\* the response is there when the call has run to its first await (lines 224-230)
triggerAwaited(s) == startRun(s)
triggerRun(s) == startRun([s EXCEPT !.response = "Review triggered"])

\* the handler resumes: processAICodeReview(...) is called without await and
\* runs to its first await, then the response is returned (lines 224-230)
\* history, kept by the specifications that track "runs": latest marks the
\* worker whose run started most recently, wrote is the write of the worker's
\* last run that the store applied, overlap tells that the worker's request
\* was a synchronize or reopened event that arrived while another worker's run
\* was in progress
Trigger(w) ==
  /\ slots[w].pc = "written"
  /\ slots' = [v \in DOMAIN slots |->
                 IF v = w
                 THEN triggerRun([slots[w] EXCEPT !.latest = Rec("runs", TRUE, @),
                                                  !.wrote = None])
                 ELSE [slots[v] EXCEPT !.latest = Rec("runs", FALSE, @)]]
  /\ UNCHANGED <<installationCache, reviews>>
  /\ UNCHANGED reviewFrame

\* the direct token exchange answers (lines 259-269)
DirectExchange(w, ok) ==
  /\ slots[w].pc = "direct"
  /\ slots' = [slots EXCEPT ![w] =
                 IF ok THEN listFiles(slots[w], "direct")
                 ELSE enterResolver([slots[w] EXCEPT !.log = Logged(@, <<"direct:failed">>)])]
  /\ UNCHANGED <<installationCache, reviews>>
  /\ UNCHANGED reviewFrame

\* the installation lookup of the Resolver path answers (next.config.js lines 87-96,
\* 118-124, 131-142)
RunLookup(w, ok, id) ==
  /\ slots[w].pc = "lookup"
  /\ LET key == cacheKey(Repository.full_name[1], Repository.full_name[2]) IN
     IF ok
     THEN /\ installationCache' = cacheStore(installationCache, key, id, now)
          /\ slots' = [slots EXCEPT ![w] =
                         signFor([slots[w] EXCEPT !.pc = "exchange",
                                                  !.log = Logged(@, <<"exchange">>)],
                                 "exchange")]
     ELSE /\ installationCache' = cacheAfterFail(installationCache, key, now)
          /\ slots' = [slots EXCEPT ![w] = fail(slots[w], "resolver:failed")]
  /\ UNCHANGED reviews
  /\ UNCHANGED reviewFrame

\* the cache after the token request of getInstallationTokenForRepo answered:
\* neither the throw nor the return touches it (next.config.js lines 143-148)
cacheEvictOnExchangeFail(cache, key, ok) == IF ok THEN cache ELSE MapDelete(cache, key)
cacheAfterExchange(cache, key, ok) == cache

\* the token request of getInstallationTokenForRepo answers (next.config.js lines 143-148)
ResolverExchange(w, ok) ==
  /\ slots[w].pc = "exchange"
  /\ slots' = [slots EXCEPT ![w] =
                 IF ok THEN listFiles(slots[w], "resolver")
                 ELSE fail(slots[w], "resolver:failed")]
  /\ installationCache' =
       cacheAfterExchange(installationCache,
                          cacheKey(Repository.full_name[1], Repository.full_name[2]), ok)
  /\ UNCHANGED reviews
  /\ UNCHANGED reviewFrame

\* the changed-file listing answers (lines 287-341)
Listing(w, ok, files) ==
  /\ slots[w].pc = "listing"
  /\ LET s == slots[w]
         code == codeFilesOf(files)
     IN
     slots' = [slots EXCEPT ![w] =
       IF ~ok THEN fail(s, "list:failed")
       ELSE IF Len(code) = 0
       THEN [s EXCEPT !.pc = "saving", !.files = Rec("log", files, <<>>),
                      !.write = [status |-> "completed", review |-> NoCodeReview],
                      !.after = "done", !.log = Logged(@, <<"listed", "write:completed">>)]
       ELSE [s EXCEPT !.pc = "contents", !.files = files,
                      !.fetched = [i \in 1..Len(code) |-> "wait"],
                      !.log = Logged(@, <<"listed">> \o [i \in 1..Len(code) |-> "content"])]]
  /\ UNCHANGED <<installationCache, reviews>>
  /\ UNCHANGED reviewFrame

\* files whose content arrived, in the order of codeFiles (line 343)
validFilesAll(code, fetched) == code
validFilesOf(code, fetched) ==
  LET keep(i) == fetched[i] = "ok"
      RECURSIVE pick(_)
      pick(i) == IF i > Len(code) THEN <<>>
                 ELSE (IF keep(i) THEN <<code[i]>> ELSE <<>>) \o pick(i + 1)
  IN pick(1)

\* Promise.all(codeFiles.map(...)) (lines 312-341): the position in fileContents
\* of each fetch's result, for n fetches that settled in the order arrived
promiseByArrival(n, arrived) == IF Len(arrived) = n THEN arrived ELSE [i \in 1..n |-> i]
promiseAll(n, arrived) == [i \in 1..n |-> i]

\* one content fetch settles; when the last one has, Promise.all resolves and
\* the run goes on to the generation call or the short-circuit (lines 312-365)
Content(w, i, ok) ==
  /\ slots[w].pc = "contents"
  /\ i \in DOMAIN slots[w].fetched
  /\ slots[w].fetched[i] = "wait"
  /\ LET s == slots[w]
         fetched == [s.fetched EXCEPT ![i] = IF ok THEN "ok" ELSE "fail"]
         settled == \A j \in DOMAIN fetched : fetched[j] # "wait"
         arrived == Rec("order", Append(s.arrived, i), s.arrived)
         code == codeFilesOf(s.files)
         at == promiseAll(Len(code), arrived)
         valid == validFilesOf([k \in DOMAIN at |-> code[at[k]]],
                               [k \in DOMAIN at |-> fetched[at[k]]])
         t == [s EXCEPT !.arrived = arrived,
                        !.given = Rec("order", IF settled THEN valid ELSE <<>>, <<>>)]
     IN
     slots' = [slots EXCEPT ![w] =
       IF ~settled THEN [t EXCEPT !.fetched = fetched]
       ELSE IF Len(valid) = 0
       THEN [t EXCEPT !.pc = "saving", !.fetched = Rec("log", fetched, <<>>),
                      !.files = Rec("log", @, <<>>),
                      !.write = [status |-> "completed", review |-> FetchFailedReview],
                      !.after = "done", !.log = Logged(@, <<"write:completed">>)]
       ELSE [t EXCEPT !.pc = "generating", !.fetched = Rec("log", fetched, <<>>),
                      !.files = Rec("log", @, <<>>),
                      !.log = Logged(@, <<"generate">>)]]
  /\ UNCHANGED <<installationCache, reviews>>
  /\ UNCHANGED reviewFrame

\* generateAICodeReview settles (lines 357-368, 375-383)
Generate(w, provider, hfProvider, outcome) ==
  /\ slots[w].pc = "generating"
  /\ LET s == [slots[w] EXCEPT !.log =
                  Logged(@, generationAnswer(provider, hfProvider, outcome)
                            \o (IF generationCallFailed(provider, hfProvider, outcome)
                                THEN <<"generate:error">> ELSE <<>>))]
         got == generateAICodeReview(provider, hfProvider, outcome)
     IN
     slots' = [slots EXCEPT ![w] =
       IF got.threw THEN fail(s, "generate:failed")
       ELSE [s EXCEPT !.pc = "saving",
                      !.write = [status |-> "completed", review |-> got.review],
                      !.after = "commenting", !.log = Logged(@, <<"write:completed">>)]]
  /\ UNCHANGED <<installationCache, reviews>>
  /\ UNCHANGED reviewFrame

\* updateReviewStatus settles: the store applied the update, or the error was
\* logged and swallowed (lines 386-397); then the comment is posted or the run ends
Save(w, dbUp) ==
  /\ slots[w].pc = "saving"
  /\ LET s == slots[w] IN
     /\ reviews' = IF dbUp THEN updateReview(s.reviewId, s.write.status, s.write.review)
                   ELSE reviews
     /\ slots' = [slots EXCEPT ![w] =
          LET t == [s EXCEPT !.saved = IF dbUp THEN "applied" ELSE "swallowed",
                             !.wrote = Rec("runs", IF dbUp THEN s.write ELSE @, @)]
          IN
          IF s.after = "commenting"
          THEN [t EXCEPT !.pc = "commenting", !.after = "", !.log = Logged(@, <<"comment">>)]
          ELSE finished([t EXCEPT !.pc = "done", !.after = ""])]
  /\ UNCHANGED installationCache
  /\ UNCHANGED reviewFrame

\* postGitHubComment returns: its catch logs a failed post and swallows it, so
\* processAICodeReview ends without entering its own catch (lines 371-373, 417-426)
commentFailureFails(s, ok) ==
  IF ok THEN finished([s EXCEPT !.pc = "done"]) ELSE fail(s, "comment:failed")
afterComment(s, ok) ==
  finished([s EXCEPT !.pc = "done",
                     !.log = Logged(@, IF ok THEN <<>> ELSE <<"comment:failed">>)])

\* the comment post settles (lines 399-427)
Comment(w, ok) ==
  /\ slots[w].pc = "commenting"
  /\ slots' = [slots EXCEPT ![w] = afterComment(slots[w], ok)]
  /\ UNCHANGED <<installationCache, reviews>>
  /\ UNCHANGED reviewFrame

\* the steps of webhook requests and their runs, for given sets of inputs
ReviewSteps(prs, instIds, fileLists, providers, outcomes, storeUp) ==
  \/ \E w \in DOMAIN slots, sig \in SigKinds, secretSet \in BOOLEAN :
       Deliver(w, sig, secretSet, "push", "", TRUE, TRUE, 7, 0)
  \/ \E w \in DOMAIN slots, action \in PullRequestActions, pr \in prs, instId \in instIds :
       Deliver(w, "valid", TRUE, "pull_request", action, TRUE, TRUE, pr, instId)
  \/ \E w \in DOMAIN slots, dbUp \in BOOLEAN, enabled \in BOOLEAN :
       Deliver(w, "valid", TRUE, "pull_request", "opened", dbUp, enabled, 7, 0)
  \/ \E pullRequestId \in prs \cup {0}, dbUp \in storeUp :
       ReviewsPOST(pullRequestId, Repository.id, Repository.full_name, dbUp)
  \/ \E dbUp \in storeUp : ReviewsSave(dbUp)
  \/ \E w \in DOMAIN slots, dbUp \in storeUp : WriteRecord(w, dbUp)
  \/ \E w \in DOMAIN slots : Trigger(w)
  \/ \E w \in DOMAIN slots, ok \in BOOLEAN : DirectExchange(w, ok)
  \/ \E w \in DOMAIN slots, ok \in BOOLEAN, id \in InstallIds : RunLookup(w, ok, id)
  \/ \E w \in DOMAIN slots, ok \in BOOLEAN : ResolverExchange(w, ok)
  \/ \E w \in DOMAIN slots, ok \in BOOLEAN, files \in fileLists : Listing(w, ok, files)
  \/ \E w \in DOMAIN slots, ok \in BOOLEAN :
       \E i \in DOMAIN slots[w].fetched : Content(w, i, ok)
  \/ \E w \in DOMAIN slots, provider \in providers, hfProvider \in HfProviders,
        outcome \in outcomes : Generate(w, provider, hfProvider, outcome)
  \/ \E w \in DOMAIN slots, dbUp \in storeUp : Save(w, dbUp)
  \/ \E w \in DOMAIN slots, ok \in BOOLEAN : Comment(w, ok)

NextReview ==
  ReviewSteps(PullRequests, EventInstallIds, FileLists, Providers, GenerationOutcomes, {TRUE})

\* pull-request events for two pull requests, handled one request at a time,
\* each with its run, under every provider and with the store up
SpecReview ==
  Init({}, {"w1"}) /\ track = {"log"} /\ parser = NoParse /\ [][NextReview]_vars

NextGenerate ==
  ReviewSteps({7}, EventInstallIds, {<<>>, <<MainTs>>}, Providers, GenerationOutcomes, {TRUE})

\* one request at a time for one pull request, under every provider and every
\* answer of the text-generation call, with each run's history and the answer
\* its generation call got
SpecGenerate ==
  Init({}, {"w1"}) /\ track = {"log", "answer"} /\ parser = NoParse
    /\ [][NextGenerate]_vars

NextDeliveries ==
  ReviewSteps({7}, EventInstallIds, {<<>>, <<MainTs>>}, {"openai"}, {"text"}, {TRUE})

\* concurrent webhook requests for one pull request, and their runs, without
\* the runs' histories
SpecDeliveries ==
  Init({}, Workers) /\ track = {} /\ parser = NoParse /\ [][NextDeliveries]_vars

\* a changed-file list with three allow-listed files
UtilPy == <<"util", "py">>
FetchLists == FileLists \cup {<<MainTs, ReadmeMd, AppJS, UtilPy>>}

NextFetch == ReviewSteps({7}, EventInstallIds, FetchLists, {"openai"}, {"text"}, {TRUE})

\* one request at a time, with each run's history, the order in which its
\* content fetches settle and the files it hands to the generation call
SpecFetch ==
  Init({}, {"w1"}) /\ track = {"log", "order"} /\ parser = NoParse /\ [][NextFetch]_vars

\* an opened event and later synchronize events for one pull request, handled
\* by concurrent requests, with the store up
NextRuns ==
  \/ \E w \in DOMAIN slots, action \in {"opened", "synchronize"} :
       Deliver(w, "valid", TRUE, "pull_request", action, TRUE, TRUE, 7, 0)
  \/ \E pullRequestId \in {7, 0} :
       ReviewsPOST(pullRequestId, Repository.id, Repository.full_name, TRUE)
  \/ ReviewsSave(TRUE)
  \/ \E w \in DOMAIN slots : WriteRecord(w, TRUE)
  \/ \E w \in DOMAIN slots : Trigger(w)
  \/ \E w \in DOMAIN slots, ok \in BOOLEAN : RunLookup(w, ok, 11)
  \/ \E w \in DOMAIN slots, ok \in BOOLEAN : ResolverExchange(w, ok)
  \/ \E w \in DOMAIN slots, ok \in BOOLEAN, files \in {<<>>, <<MainTs>>} :
       Listing(w, ok, files)
  \/ \E w \in DOMAIN slots, ok \in BOOLEAN :
       \E i \in DOMAIN slots[w].fetched : Content(w, i, ok)
  \/ \E w \in DOMAIN slots : Generate(w, "openai", "novita", "text")
  \/ \E w \in DOMAIN slots : Save(w, TRUE)
  \/ \E w \in DOMAIN slots, ok \in BOOLEAN : Comment(w, ok)

\* overlapping review runs for one record, with the order in which they
\* started and the write of each
SpecRuns ==
  Init({}, Workers) /\ track = {"runs"} /\ parser = NoParse /\ [][NextRuns]_vars

\* a step of a review run: one of the calls it awaits returns
RunStep ==
  \/ \E w \in DOMAIN slots, ok \in BOOLEAN : DirectExchange(w, ok)
  \/ \E w \in DOMAIN slots, ok \in BOOLEAN, id \in InstallIds : RunLookup(w, ok, id)
  \/ \E w \in DOMAIN slots, ok \in BOOLEAN : ResolverExchange(w, ok)
  \/ \E w \in DOMAIN slots, ok \in BOOLEAN, files \in FileLists : Listing(w, ok, files)
  \/ \E w \in DOMAIN slots, ok \in BOOLEAN :
       \E i \in DOMAIN slots[w].fetched : Content(w, i, ok)
  \/ \E w \in DOMAIN slots, provider \in Providers, hfProvider \in HfProviders,
        outcome \in GenerationOutcomes : Generate(w, provider, hfProvider, outcome)
  \/ \E w \in DOMAIN slots, dbUp \in BOOLEAN : Save(w, dbUp)
  \/ \E w \in DOMAIN slots, ok \in BOOLEAN : Comment(w, ok)

\* a step of the webhook handler for an event of pull request 7
HandlerStep ==
  \/ \E w \in DOMAIN slots, action \in PullRequestActions, instId \in EventInstallIds :
       Deliver(w, "valid", TRUE, "pull_request", action, TRUE, TRUE, 7, instId)
  \/ \E pullRequestId \in {7, 0}, dbUp \in BOOLEAN :
       ReviewsPOST(pullRequestId, Repository.id, Repository.full_name, dbUp)
  \/ \E dbUp \in BOOLEAN : ReviewsSave(dbUp)
  \/ \E w \in DOMAIN slots, dbUp \in BOOLEAN : WriteRecord(w, dbUp)
  \/ \E w \in DOMAIN slots : Trigger(w)

NextLive == HandlerStep \/ RunStep

\* one request at a time, with each run's history; every call that a run
\* awaits returns eventually
SpecLive ==
  /\ Init({}, {"w1"}) /\ track = {"log"} /\ parser = NoParse
  /\ [][NextLive]_vars
  /\ WF_vars(RunStep)

\* review runs, one request at a time, next to the invalidations and the clock
NextFrame ==
  \/ ReviewSteps({7}, EventInstallIds, {<<>>, <<MainTs>>}, {"openai"}, {"text"}, {TRUE})
  \/ \E o \in Owners : ClearInstallationCache(o)
  \/ ClearAllInstallationCache
  \/ \E repositories \in RepoLists :
       InstallationEvent("valid", TRUE, "deleted", repositories)
  \/ Tick

\* what changes the cache while review runs resolve and exchange
SpecFrame ==
  Init({}, {"w1"}) /\ track = {"log"} /\ parser = NoParse /\ [][NextFrame]_vars

\* the resolver, its two invalidation operations and the webhook's installation
\* events, at one instant of the clock; the repository list of an event is read
\* only by the "deleted" branch; next to them, the requests that create a review
\* record
NextInval ==
  \/ \E c \in DOMAIN calls, o \in Owners, r \in RepoNames : ResolveStart(c, o, r)
  \/ \E c \in DOMAIN calls, id \in InstallIds : LookupOk(c, id)
  \/ \E c \in DOMAIN calls, st \in FailStatuses : LookupFail(c, st)
  \/ \E c \in DOMAIN calls : Return(c)
  \/ \E o \in Owners : ClearInstallationCache(o)
  \/ ClearAllInstallationCache
  \/ \E sig \in SigKinds, secretSet \in BOOLEAN, action \in InstallationActions :
       \E repositories \in (IF action = "deleted" THEN RepoLists ELSE {<<>>}) :
         InstallationEvent(sig, secretSet, action, repositories)
  \/ \E pullRequestId \in {7, 0}, dbUp \in BOOLEAN :
       ReviewsPOST(pullRequestId, Repository.id, Repository.full_name, dbUp)
  \/ \E dbUp \in BOOLEAN : ReviewsSave(dbUp)

\* the resolver and the webhook's installation events, with the invalidation
\* history and the webhook's responses
SpecInval ==
  Init({"c1"}, {}) /\ track = {"inval", "resp"} /\ parser = NoParse
    /\ [][NextInval]_vars

NextSigner == NextDeliveries \/ Tick

\* one request at a time while Date.now() moves on, with the assertions that
\* each run signs
SpecSigner ==
  Init({}, {"w1"}) /\ track = {"jwt"} /\ parser = NoParse /\ [][NextSigner]_vars

\* ====================================================== the response parser
\* JavaScript values, as far as parseAIResponse looks at them
Undefined == [t |-> "undefined"]
Null == [t |-> "null"]
NaN == [t |-> "NaN"]
Num(n) == [t |-> "number", n |-> n]
Str(str) == [t |-> "string", s |-> str]
Bool(b) == [t |-> "boolean", b |-> b]
Obj(fields) == [t |-> "object", o |-> fields]
Arr(items) == [t |-> "array", a |-> items]

\* ToBoolean
Truthy(x) ==
  CASE x.t \in {"undefined", "null", "NaN"} -> FALSE
    [] x.t = "number" -> x.n # 0
    [] x.t = "string" -> x.s # ""
    [] x.t = "boolean" -> x.b
    [] OTHER -> TRUE

\* a || b
Or(a, b) == IF Truthy(a) THEN a ELSE b

\* StringToNumber on the strings used as scores
StringToNumber(str) ==
  CASE str = "" -> Num(0)
    [] str = "85" -> Num(85)
    [] str = "150" -> Num(150)
    [] OTHER -> NaN

\* ToNumber (an array converts through its string form: [] is "", [x] is String(x))
ToNumber(x) ==
  CASE x.t = "number" -> x
    [] x.t = "NaN" -> NaN
    [] x.t = "undefined" -> NaN
    [] x.t = "null" -> Num(0)
    [] x.t = "boolean" -> IF x.b THEN Num(1) ELSE Num(0)
    [] x.t = "string" -> StringToNumber(x.s)
    [] x.t = "array" ->
         IF Len(x.a) = 0 THEN Num(0)
         ELSE IF Len(x.a) = 1 /\ x.a[1].t = "number" THEN x.a[1]
         ELSE IF Len(x.a) = 1 /\ x.a[1].t = "string" THEN StringToNumber(x.a[1].s)
         ELSE NaN
    [] OTHER -> NaN

\* Math.min(a, b) and Math.max(a, b): NaN if either argument converts to NaN
MathMin(a, b) ==
  LET x == ToNumber(a)
      y == ToNumber(b)
  IN IF x = NaN \/ y = NaN THEN NaN ELSE IF x.n <= y.n THEN x ELSE y
MathMax(a, b) ==
  LET x == ToNumber(a)
      y == ToNumber(b)
  IN IF x = NaN \/ y = NaN THEN NaN ELSE IF x.n >= y.n THEN x ELSE y

\* Math.max(0, Math.min(100, parsed.score || 0)) (lines 270, 302)
clampScore(score) == MathMax(Num(0), MathMin(Num(100), Or(score, Num(0))))

\* parsed.<name>: undefined unless parsed is an object with that property
Get(x, name) ==
  IF x.t = "object" /\ name \in DOMAIN x.o THEN x.o[name] ELSE Undefined

\* `suggestion_${index + 1}` and `issue_${index + 1}`
placeholderId(kind, index) ==
  CASE kind = "suggestion" /\ index = 1 -> Str("suggestion_1")
    [] kind = "suggestion" /\ index = 2 -> Str("suggestion_2")
    [] kind = "issue" /\ index = 1 -> Str("issue_1")
    [] kind = "issue" /\ index = 2 -> Str("issue_2")
    [] OTHER -> Str("placeholder")

\* one element of the mapped suggestions / issues arrays (lines 271-292)
mapItem(kind, s, index) ==
  [id |-> Or(Get(s, "id"), placeholderId(kind, index)),
   type |-> Or(Get(s, "type"),
               IF kind = "suggestion" THEN Str("improvement") ELSE Str("bug")),
   title |-> Or(Get(s, "title"),
                Or(Get(s, "message"),
                   IF kind = "suggestion" THEN Str("Suggestion") ELSE Str("Issue"))),
   description |-> Or(Get(s, "description"),
                      Or(Get(s, "message"),
                         IF kind = "suggestion" THEN Str("Code improvement suggestion")
                         ELSE Str("Code issue found"))),
   severity |-> Or(Get(s, "severity"),
                   IF kind = "suggestion" THEN Str("low") ELSE Str("medium")),
   file |-> Get(s, "file"),
   line |-> Get(s, "line"),
   code |-> Get(s, "code"),
   suggestedFix |-> Get(s, "suggestedFix")]

\* (parsed.<name> || []).map(...) raises a TypeError when the value has no map
\* method or an element is null or undefined
mapThrows(list) ==
  \/ list.t # "array"
  \/ \E i \in DOMAIN list.a : list.a[i].t \in {"null", "undefined"}

\* the Structured Result built from a parsed value, or a raised TypeError
\* (lines 268-293 and 300-325)
Raised == [threw |-> TRUE]
buildReview(parsed) ==
  LET suggestions == Or(Get(parsed, "suggestions"), Arr(<<>>))
      issues == Or(Get(parsed, "issues"), Arr(<<>>))
  IN
  IF parsed.t \in {"null", "undefined"} THEN Raised
  ELSE IF mapThrows(suggestions) \/ mapThrows(issues) THEN Raised
  ELSE [threw |-> FALSE,
        summary |-> Or(Get(parsed, "summary"), Str("No summary provided")),
        score |-> clampScore(Get(parsed, "score")),
        suggestions |->
          [i \in DOMAIN suggestions.a |-> mapItem("suggestion", suggestions.a[i], i)],
        issues |-> [i \in DOMAIN issues.a |-> mapItem("issue", issues.a[i], i)],
        positiveAspects |-> Or(Get(parsed, "positiveAspects"), Arr(<<>>))]

\* the fallback result (lines 333-340)
fallbackReview ==
  [threw |-> FALSE,
   summary |-> Str("Unable to parse AI review response"),
   score |-> Num(0),
   suggestions |-> <<>>,
   issues |-> <<>>,
   positiveAspects |-> Arr(<<>>)]

\* a response text is a sequence of tokens: white space, the reasoning
\* delimiters <think> and </think>, the fence markers ```json and ```, prose
\* without braces, prose with a brace pair that is no JSON, and the text of one
\* JSON value
Tok(kind) == [k |-> kind, v |-> Undefined]
JsonTok(value) == [k |-> "json", v |-> value]
Text(tokens) == [t |-> "string", text |-> tokens]

\* String.prototype.trim
RECURSIVE trimStart(_)
trimStart(text) ==
  IF text # <<>> /\ Head(text).k = "ws" THEN trimStart(Tail(text)) ELSE text
RECURSIVE trimEnd(_)
trimEnd(text) ==
  IF text # <<>> /\ text[Len(text)].k = "ws"
  THEN trimEnd(SubSeq(text, 1, Len(text) - 1))
  ELSE text
trim(text) == trimEnd(trimStart(text))

\* replace(/<think>[\s\S]*?<\/think>/g, ''): every <think> up to the nearest
\* </think> after it is removed
RECURSIVE removeThink(_)
removeThink(text) ==
  LET opens == {i \in DOMAIN text : text[i].k = "think"}
      closed == {i \in opens : \E j \in DOMAIN text : j > i /\ text[j].k = "/think"}
  IN
  IF closed = {} THEN text
  ELSE LET i == CHOOSE x \in closed : \A y \in closed : x <= y
           j == CHOOSE x \in DOMAIN text :
                  /\ x > i /\ text[x].k = "/think"
                  /\ \A y \in DOMAIN text : (y > i /\ text[y].k = "/think") => x <= y
       IN SubSeq(text, 1, i - 1) \o removeThink(SubSeq(text, j + 1, Len(text)))

\* replace(/```json\s*/g, ''): every ```json and the white space after it
RECURSIVE removeJsonFences(_)
removeJsonFences(text) ==
  IF text = <<>> THEN <<>>
  ELSE IF Head(text).k = "fence:json" THEN removeJsonFences(trimStart(Tail(text)))
  ELSE <<Head(text)>> \o removeJsonFences(Tail(text))

\* replace(/```\s*$/g, ''): a ``` at the very end, with the white space after it
removeTrailingFence(text) ==
  LET body == trimEnd(text) IN
  IF body # <<>> /\ body[Len(body)].k = "fence"
  THEN SubSeq(body, 1, Len(body) - 1)
  ELSE text

\* the cleaning of lines 254-264
cleanResponse(text) ==
  trim(removeTrailingFence(removeJsonFences(removeThink(trim(text)))))

\* JSON.parse: the value, or a SyntaxError unless the text is one JSON value
\* with at most white space around it
jsonParse(text) ==
  LET body == trim(text) IN
  IF Len(body) = 1 /\ body[1].k = "json"
  THEN [ok |-> TRUE, value |-> body[1].v]
  ELSE [ok |-> FALSE, value |-> Undefined]

\* the token holds a "{" and a "}"
hasBraces(tok) == tok.k = "braces" \/ (tok.k = "json" /\ tok.v.t = "object")

\* cleanedResponse.match(/\{[\s\S]*\}/): from the first "{" to the last "}",
\* or no match (the empty text)
noJsonMatch(text) == <<>>
jsonMatch(text) ==
  LET braces == {i \in DOMAIN text : hasBraces(text[i])} IN
  IF braces = {} THEN <<>>
  ELSE SubSeq(text, CHOOSE x \in braces : \A y \in braces : x <= y,
                    CHOOSE x \in braces : \A y \in braces : x >= y)

\* the body of the outer try of parseAIResponse (lines 252-327): a result, a
\* raised error, or falling out of the try to the fallback return
parseBody(response) ==
  IF response.t # "string" THEN Raised
  ELSE LET cleaned == cleanResponse(response.text)
           direct == jsonParse(cleaned)
           built == IF direct.ok THEN buildReview(direct.value) ELSE Raised
           match == jsonMatch(cleaned)
           extracted == jsonParse(match)
       IN
       IF ~built.threw THEN built
       ELSE IF match = <<>> THEN fallbackReview
       ELSE IF extracted.ok THEN buildReview(extracted.value)
       ELSE Raised

\* the outer catch (lines 328-330) and the fallback return after it
rethrowOuter(outcome) == outcome
catchOuter(outcome) == IF outcome.threw THEN fallbackReview ELSE outcome

\* parseAIResponse(response) (lines 251-341)
parseAIResponse(response) == catchOuter(parseBody(response))

\* ---- generated texts
\* parsed.score as the generator may emit it
ScoreValues ==
  {Undefined, Null, Num(-5), Num(0), Num(85), Num(100), Num(150),
   Str(""), Str("85"), Str("150"), Str("high"), Bool(TRUE), Arr(<<>>),
   Obj([value |-> Num(85)])}
SummaryValues == {Undefined, Str(""), Str("Looks good")}
FullItem ==
  Obj([id |-> Str("s1"), type |-> Str("security"), title |-> Str("Escape input"),
       description |-> Str("User input is not sanitized"), severity |-> Str("high"),
       file |-> Str("main.ts"), line |-> Num(42)])
MessageItem == Obj([message |-> Str("Prefer const")])
EmptyItem == Obj([none \in {} |-> Undefined])
SuggestionValues ==
  {Undefined, Arr(<<>>), Arr(<<FullItem>>), Arr(<<EmptyItem, MessageItem>>),
   Str("none"), Arr(<<Null>>)}
IssueValues == {Undefined, Arr(<<MessageItem>>)}
PositiveValues == {Undefined, Arr(<<Str("Good naming")>>)}

\* an object with the properties that are given (JSON has no undefined)
ObjectOf(props) ==
  Obj([name \in {n \in DOMAIN props : props[n] # Undefined} |-> props[name]])

\* the structured objects the generator may emit
Objects ==
  {ObjectOf([summary |-> a, score |-> b, suggestions |-> c, issues |-> d,
             positiveAspects |-> e]) :
     a \in SummaryValues, b \in ScoreValues, c \in SuggestionValues,
     d \in IssueValues, e \in PositiveValues}

\* JSON values that are no objects
Scalars == {Null, Num(5), Str("ok"), Arr(<<>>)}

\* ways a JSON text J comes wrapped in a response
Reasoning == <<Tok("think"), Tok("prose"), Tok("ws"), Tok("braces"), Tok("/think")>>
PlainWraps == {"bare", "ws"}
FenceWraps == {"fence:json", "fence", "think", "think+fence:json", "think+fence"}
OtherWraps ==
  {"prose", "braces", "then:braces", "fence:json+prose", "think:open", "twice"}
Wrap(kind, J) ==
  CASE kind = "bare" -> <<J>>
    [] kind = "ws" -> <<Tok("ws"), J, Tok("ws")>>
    [] kind = "fence:json" -> <<Tok("fence:json"), Tok("ws"), J, Tok("ws"), Tok("fence")>>
    [] kind = "fence" -> <<Tok("fence"), Tok("ws"), J, Tok("ws"), Tok("fence")>>
    [] kind = "think" -> Reasoning \o <<Tok("ws"), J>>
    [] kind = "think+fence:json" ->
         Reasoning \o <<Tok("ws"), Tok("fence:json"), Tok("ws"), J, Tok("ws"), Tok("fence"),
                        Tok("ws")>>
    [] kind = "think+fence" ->
         Reasoning \o <<Tok("ws"), Tok("fence"), Tok("ws"), J, Tok("ws"), Tok("fence")>>
    [] kind = "prose" -> <<Tok("prose"), Tok("ws"), J, Tok("ws"), Tok("prose")>>
    [] kind = "braces" -> <<Tok("braces"), Tok("ws"), J>>
    [] kind = "then:braces" -> <<J, Tok("ws"), Tok("prose"), Tok("braces")>>
    [] kind = "fence:json+prose" ->
         <<Tok("fence:json"), J, Tok("fence"), Tok("ws"), Tok("prose")>>
    [] kind = "think:open" -> <<Tok("think"), Tok("prose"), Tok("ws"), J>>
    [] OTHER -> <<J, Tok("ws"), J>>

\* the responses handed to parseAIResponse: wrapped JSON texts, texts without
\* JSON, and a response that is no string (data.response of an answer without it)
Responses ==
  {[wrap |-> k, object |-> J, response |-> Text(Wrap(k, JsonTok(J))), result |-> None] :
     k \in PlainWraps \cup FenceWraps \cup OtherWraps, J \in Objects \cup Scalars}
  \cup {[wrap |-> "none", object |-> None, response |-> Text(t), result |-> None] :
          t \in {<<>>, <<Tok("ws")>>, <<Tok("prose")>>, <<Tok("braces")>>,
                 <<Tok("fence:json"), Tok("fence")>>, Reasoning}}
  \cup {[wrap |-> "none", object |-> None, response |-> Undefined, result |-> None]}

\* parseAIResponse(response) is called and returns or raises
Parse ==
  /\ parser.result = None
  /\ parser' = [parser EXCEPT !.result = parseAIResponse(parser.response)]
  /\ UNCHANGED <<configured, installationCache, now, calls, lastResponse, lastStore,
                 storedAt, pendingInval, lastFailure, track, reviews, slots, post>>

NextParser == Parse

\* parseAIResponse applied to each of the responses
SpecParser ==
  Init({}, {}) /\ track = {} /\ parser \in Responses /\ [][NextParser]_vars

\* ------------------------------------------------------------------ steps
\* caller c enters getInstallationIdForRepo in this step
StartStep(c) == calls[c].pc = "idle" /\ calls'[c].pc # "idle"
\* caller c's lookup answers 200 in this step
OkStep(c) == calls[c].pc = "fetching" /\ calls'[c].pc = "returned"
\* caller c's lookup answers a non-success status in this step
FailStep(c) == calls[c].pc = "fetching" /\ calls'[c].pc = "threw"
\* the webhook handler answers a request in this step
WebhookStep == lastResponse' # lastResponse
\* the call was answered from the cache, without a remote lookup
AnsweredFromCache(call) == call.pc = "returned" /\ call.hit /\ call.lookups = 0
\* the call took the lookup path (the lookup is issued unless the app is unconfigured)
TookLookupPath(call) == ~call.hit /\ (configured => call.lookups = 1)
\* owner A's entry was stored by a resolve that completed less than 24 h ago
\* and was not invalidated since
ResolvedWithin24h(A) ==
  \E id \in InstallIds : storedAt[A][id] >= 0 /\ now < storedAt[A][id] + CACHE_TTL

\* ----------------------------------------------------------------- claims

\* C1 (as stated): once a resolve(A) has completed successfully, any later
\* resolve(A) that starts less than 24 hours after the entry was stored, with no
\* invalidate(A) or invalidate_all in between, returns the same installation id
\* as that earlier resolve and issues no remote lookup.
C1_LaterResolveReturnsEarlierId ==
  [][\A c \in DOMAIN calls : StartStep(c) =>
       LET A == calls'[c].owner IN
       \A id \in InstallIds :
         (storedAt[A][id] >= 0 /\ now < storedAt[A][id] + CACHE_TTL)
           => (AnsweredFromCache(calls'[c]) /\ calls'[c].result = id)]_vars

\* C1 (amended): under the same conditions the later resolve issues no remote
\* lookup and returns the id of the entry then cached for A, which is the id
\* stored by the most recently completed lookup for A.
C1_LaterResolveReturnsCachedId ==
  [][\A c \in DOMAIN calls : StartStep(c) =>
       LET A == calls'[c].owner IN
       ResolvedWithin24h(A)
         => /\ AnsweredFromCache(calls'[c])
            /\ lastStore[A] # None
            /\ calls'[c].result = lastStore[A].id
            /\ installationCache' = installationCache]_vars

\* C1 witness: a resolve was answered from the cache with the id of the latest
\* store, after an overlapping lookup had overwritten an earlier, different id.
C1_Witness ==
  \E c \in DOMAIN calls :
    /\ AnsweredFromCache(calls[c])
    /\ lastStore[calls[c].owner] # None
    /\ calls[c].result = lastStore[calls[c].owner].id
    /\ now > lastStore[calls[c].owner].at
    /\ \E id \in InstallIds :
         id # calls[c].result /\ storedAt[calls[c].owner][id] >= 0

\* C3: resolve never returns an id taken from an expired entry: a cache answer
\* comes from an entry whose expiry is after the current time; with an entry at
\* or past its expiry resolve takes the lookup path; and a successful lookup
\* stores the resolved id with expiry = time of storing + 24 hours.
C3_NoStaleEntryServed ==
  [][\A c \in DOMAIN calls :
       LET A == calls'[c].owner
           key == <<A>>
       IN
       /\ (StartStep(c) /\ calls'[c].hit)
            => /\ key \in DOMAIN installationCache
               /\ installationCache[key].expiresAt > now
               /\ calls'[c].result = installationCache[key].installationId
       /\ (StartStep(c) /\ key \in DOMAIN installationCache
             /\ installationCache[key].expiresAt <= now)
            => (calls'[c].pc = "fetching" /\ calls'[c].lookups = 1
                /\ installationCache' = installationCache)
       /\ OkStep(c)
            => /\ key \in DOMAIN installationCache'
               /\ installationCache'[key] =
                    [installationId |-> calls'[c].result, expiresAt |-> now + CACHE_TTL]
    ]_vars

\* C3 witness: a resolve that started on an expired entry has completed its
\* lookup and the entry now holds the new id with expiry now + 24 hours.
C3_Witness ==
  \E c \in DOMAIN calls :
    /\ calls[c].pc = "returned" /\ ~calls[c].hit /\ calls[c].stale
    /\ <<calls[c].owner>> \in DOMAIN installationCache
    /\ installationCache[<<calls[c].owner>>] =
         [installationId |-> calls[c].result, expiresAt |-> now + CACHE_TTL]
    /\ \E id \in InstallIds :
         /\ id # calls[c].result
         /\ storedAt[calls[c].owner][id] >= 0
         /\ storedAt[calls[c].owner][id] + CACHE_TTL <= now

\* C5 (as stated): if the remote lookup fails, resolve raises the error and
\* leaves the cache exactly as it was, storing no entry, so the next resolve of
\* that account performs a remote lookup again.
C5_NextResolveAfterFailureLooksUp ==
  [][\A c \in DOMAIN calls :
       /\ FailStep(c) => installationCache' = installationCache
       /\ (StartStep(c) /\ lastFailure[calls'[c].owner] # "no")
            => TookLookupPath(calls'[c])]_vars

\* C5 (amended): if the remote lookup fails, resolve raises the error and
\* leaves the cache exactly as it was, storing no entry; the next resolve of
\* that account performs a remote lookup again unless an overlapping resolve of
\* the same account has stored a valid entry.
C5_FailureStoresNothing ==
  [][\A c \in DOMAIN calls :
       /\ FailStep(c) => installationCache' = installationCache
       /\ (StartStep(c) /\ lastFailure[calls'[c].owner] = "clean")
            => TookLookupPath(calls'[c])
       /\ (StartStep(c) /\ lastFailure[calls'[c].owner] = "overtaken"
             /\ calls'[c].hit)
            => /\ lastStore[calls'[c].owner] # None
               /\ calls'[c].result = lastStore[calls'[c].owner].id
               /\ calls'[c].result \in InstallIds]_vars

\* C5 witness: a lookup has failed, its caller holds the error, the account has
\* no entry, and another caller's next resolve of that account is looking it up.
C5_Witness ==
  \E c, d \in DOMAIN calls :
    /\ c # d
    /\ calls[c].pc = "threw" /\ calls[c].lookups = 1
    /\ calls[d].pc = "fetching" /\ calls[d].owner = calls[c].owner
    /\ lastFailure[calls[c].owner] = "no"
    /\ EntriesOf(installationCache, calls[c].owner) = {}

\* C6 (as stated): the cache holds at most one entry per owner, and for any two
\* repositories r1, r2 of one owner a successful resolve(owner, r1) followed
\* within 24 hours by resolve(owner, r2) (no invalidation in between) issues
\* exactly one remote lookup and both return the same installation id.
C6_SecondRepoGetsFirstRepoId ==
  /\ [](\A o \in Owners : Cardinality(EntriesOf(installationCache, o)) <= 1)
  /\ [][\A c \in DOMAIN calls :
          /\ OkStep(c) => calls'[c].lookups = 1
          /\ StartStep(c) =>
               LET A == calls'[c].owner IN
               \A id \in InstallIds :
                 (storedAt[A][id] >= 0 /\ now < storedAt[A][id] + CACHE_TTL)
                   => (AnsweredFromCache(calls'[c]) /\ calls'[c].result = id)
       ]_vars

\* C6 (amended): the cache holds at most one entry per owner, keyed by the owner
\* alone, and for any two repositories r1, r2 of one owner a resolve(owner, r1)
\* that stored the entry, followed within 24 hours by resolve(owner, r2) with no
\* invalidation in between, issues exactly one remote lookup (the first one's)
\* and the second returns the id then cached for the owner, whichever repository
\* of the owner the storing lookup named.
C6_OneEntryPerOwner ==
  /\ [](/\ DOMAIN installationCache \subseteq {<<o>> : o \in Owners}
        /\ \A o \in Owners : Cardinality(EntriesOf(installationCache, o)) <= 1)
  /\ [][\A c \in DOMAIN calls :
          /\ OkStep(c) => (calls'[c].lookups = 1 /\ ~calls'[c].hit)
          /\ StartStep(c) =>
               LET A == calls'[c].owner IN
               \A r1, r2 \in RepoNames :
                 (/\ ResolvedWithin24h(A)
                  /\ lastStore[A] # None
                  /\ lastStore[A].repo = r1
                  /\ calls'[c].repo = r2)
                   => /\ AnsweredFromCache(calls'[c])
                      /\ calls'[c].result = lastStore[A].id
       ]_vars

\* C6 witness: a resolve for one repository was answered from the entry that a
\* lookup for another repository of the same owner had stored.
C6_Witness ==
  \E c \in DOMAIN calls :
    /\ AnsweredFromCache(calls[c])
    /\ lastStore[calls[c].owner] # None
    /\ lastStore[calls[c].owner].repo # calls[c].repo
    /\ lastStore[calls[c].owner].id = calls[c].result
    /\ Cardinality(DOMAIN installationCache) = 2

\* C2: after invalidate(A) (clearInstallationCache) has returned, the next
\* resolve(A) is never answered from the cache: it performs a remote lookup.
C2_ResolveAfterInvalidateLooksUp ==
  [][\A c \in DOMAIN calls :
       (StartStep(c) /\ pendingInval[calls'[c].owner] = "clear")
         => TookLookupPath(calls'[c])]_vars

\* C4: an installation event with action "deleted" removes the entry of every
\* owner named in its repository list and leaves the other owners' entries
\* unchanged, the next resolve of a removed owner performs a remote lookup, and
\* installation events with any other action leave the cache unchanged.
C4_UninstallForcesLookup ==
  [][/\ (WebhookStep /\ lastResponse'.message = "Installation event processed")
          => IF lastResponse'.action = "deleted"
             THEN \A o \in Owners :
                    IF o \in OwnersIn(lastResponse'.repositories)
                    THEN EntriesOf(installationCache', o) = {}
                    ELSE /\ EntriesOf(installationCache', o) = EntriesOf(installationCache, o)
                         /\ \A k \in EntriesOf(installationCache, o) :
                              installationCache'[k] = installationCache[k]
             ELSE installationCache' = installationCache
     /\ \A c \in DOMAIN calls :
          (StartStep(c) /\ pendingInval[calls'[c].owner] = "webhook")
            => TookLookupPath(calls'[c])]_vars

\* ------------------------------------------------------- review-run claims
Has(log, entry) == \E i \in DOMAIN log : log[i] = entry
Count(log, entry) == Cardinality({i \in DOMAIN log : log[i] = entry})
RecordOf(id) == CHOOSE r \in reviews : r.id = id

\* C7: credential resolution in a review run is two-tier. If the event carries
\* an installation id, the run attempts the direct token exchange first and
\* calls the Resolver (getInstallationTokenForRepo) only after that attempt
\* has failed, and right after it has; if the event carries no id, the run
\* attempts no direct exchange and calls the Resolver at once.
C7_TwoTierCredentialResolution ==
  \A w \in DOMAIN slots :
    LET s == slots[w]
        l == s.log
    IN
    Has(l, "start") =>
      /\ l[1] = "start" /\ Len(l) >= 2
      /\ s.instId # 0 =>
           /\ l[2] = "direct"
           /\ \A i \in DOMAIN l : l[i] = "resolver" => i = 4 /\ l[3] = "direct:failed"
           /\ Has(l, "direct:failed") => Len(l) >= 4 /\ l[4] = "resolver"
           /\ s.token = "resolver" => Has(l, "direct:failed")
      /\ s.instId = 0 =>
           /\ l[2] = "resolver"
           /\ ~Has(l, "direct") /\ ~Has(l, "direct:failed")
           /\ s.token # "direct"

\* a run whose direct exchange failed got its token from the Resolver
C7_Witness ==
  \E w \in DOMAIN slots :
    /\ slots[w].instId # 0
    /\ Has(slots[w].log, "direct:failed")
    /\ slots[w].token = "resolver"
    /\ slots[w].pc = "listing"

\* C8: an 'opened' delivery for a (repository id, pull-request id) pair that
\* has a record - found by the handler's query, or met by its insert when a
\* concurrent delivery created it in between - creates no record, changes no
\* field of any record and starts no run; and at most one record exists per
\* pair in every reachable state.
C8_RedeliveredOpenedIsNoOp ==
  /\ [](\A r1 \in reviews, r2 \in reviews :
          (r1.repositoryId = r2.repositoryId /\ r1.pullRequestId = r2.pullRequestId)
            => r1 = r2)
  /\ [][\A w \in DOMAIN slots :
          (/\ slots[w].pc \in {"idle", "done", "write"}
           /\ slots'[w] # slots[w]
           /\ slots'[w].action = "opened"
           /\ findReview(Repository.id, slots'[w].pr) # 0)
          => /\ reviews' = reviews
             /\ slots'[w].pc = "done"
             /\ slots'[w].reviewId = 0
             /\ slots'[w].response # "Review triggered"]_vars

\* an 'opened' delivery was answered 'Review already exists' while another
\* request for the same pull request is being handled
C8_Witness ==
  \E w1 \in DOMAIN slots, w2 \in DOMAIN slots :
    /\ w1 # w2
    /\ slots[w1].action = "opened"
    /\ slots[w1].response = "Review already exists"
    /\ slots[w1].existing # 0
    /\ slots[w2].pr = slots[w1].pr
    /\ slots[w2].pc \notin {"idle", "done"}

\* C9: a 'synchronize' or 'reopened' delivery that found a record (and whose
\* store calls succeed) sets that record's status to pending while its run has
\* not started, the run starts only from there, and it starts once.
C9_ResetToPendingBeforeRerun ==
  /\ [](\A w \in DOMAIN slots :
          (slots[w].action \in {"synchronize", "reopened"} /\ slots[w].existing # 0)
            => /\ Count(slots[w].log, "start") <= 1
               /\ (slots[w].response = "Review triggered")
                    <=> (Count(slots[w].log, "start") = 1))
  /\ [][\A w \in DOMAIN slots :
          LET s == slots[w]
              t == slots'[w]
          IN
          (s.action \in {"synchronize", "reopened"} /\ s.existing # 0) =>
            /\ (s.pc = "write" /\ t.pc = "written") =>
                 /\ RecordOf(s.existing) \in reviews
                 /\ reviews' = (reviews \ {RecordOf(s.existing)})
                      \cup {[RecordOf(s.existing) EXCEPT !.status = "pending"]}
                 /\ t.reviewId = s.existing
                 /\ t.log = <<>>
            /\ (~Has(s.log, "start") /\ Has(t.log, "start")) =>
                 /\ s.pc = "written"
                 /\ t.reviewId = s.existing]_vars

\* a 'synchronize' delivery that found a record has run to the end
C9_Witness ==
  \E w \in DOMAIN slots :
    /\ slots[w].action = "synchronize"
    /\ slots[w].existing # 0
    /\ slots[w].pc = "done"
    /\ Has(slots[w].log, "comment")
    /\ slots[w].saved = "applied"

\* C10: a run whose credential resolution fails (the Resolver fails, after a
\* failed direct exchange or with no id supplied) or whose changed-file
\* listing fails writes status failed with a placeholder result of score 0 and
\* empty suggestion and issue lists - the record holds them once the store has
\* applied the write - and makes no generation call and posts no comment.
C10_EarlyFailureWritesFailed ==
  \A w \in DOMAIN slots :
    LET s == slots[w]
        l == s.log
    IN
    (Has(l, "resolver:failed") \/ Has(l, "list:failed")) =>
      /\ s.pc \in {"saving", "done"}
      /\ s.write # None
      /\ s.write.status = "failed"
      /\ s.write.review.score = 0
      /\ s.write.review.suggestions = <<>>
      /\ s.write.review.issues = <<>>
      /\ l[Len(l)] = "write:failed"
      /\ ~Has(l, "generate") /\ ~Has(l, "comment")
      /\ s.pc = "done" <=> s.saved # ""
      /\ s.saved = "applied" =>
           /\ RecordOf(s.reviewId).status = "failed"
           /\ RecordOf(s.reviewId).review = s.write.review

\* both tiers failed and the failed status was stored
C10_Witness ==
  \E w \in DOMAIN slots :
    /\ slots[w].pc = "done"
    /\ Has(slots[w].log, "direct:failed")
    /\ Has(slots[w].log, "resolver:failed")
    /\ slots[w].saved = "applied"
    /\ RecordOf(slots[w].reviewId).status = "failed"

\* C11: if the external text-generation call fails (a remote error or an empty
\* response), the run writes status failed, not completed, whichever provider
\* (openai, ollama, huggingface) is configured.
C11_GenerationFailureWritesFailed ==
  \A w \in DOMAIN slots :
    (Has(slots[w].log, "answer:error") \/ Has(slots[w].log, "answer:empty")) =>
      /\ slots[w].write # None
      /\ slots[w].write.status = "failed"

\* no changed file has an allow-listed extension (the text after the last ".",
\* lower-cased)
NoAllowListedFile(files) == \A i \in DOMAIN files : ~isCodeFile(files[i])

\* C12: if none of the changed files has an allow-listed extension, the run
\* fetches no file content and makes no generation call, and writes status
\* completed with score 100 and empty suggestion and issue lists; the record
\* holds them once the store has applied the write.
C12_NoCodeFilesCompletes100 ==
  \A w \in DOMAIN slots :
    LET s == slots[w]
        l == s.log
    IN
    (Has(l, "listed") /\ NoAllowListedFile(s.files)) =>
      /\ s.pc \in {"saving", "done"}
      /\ s.write # None
      /\ s.write.status = "completed"
      /\ s.write.review.score = 100
      /\ s.write.review.suggestions = <<>>
      /\ s.write.review.issues = <<>>
      /\ l[Len(l)] = "write:completed"
      /\ ~Has(l, "content") /\ ~Has(l, "generate") /\ ~Has(l, "comment")
      /\ s.saved = "applied" =>
           /\ RecordOf(s.reviewId).status = "completed"
           /\ RecordOf(s.reviewId).review = s.write.review

\* a pull request that changed only a README and a Makefile was completed
\* with score 100
C12_Witness ==
  \E w \in DOMAIN slots :
    /\ slots[w].pc = "done"
    /\ slots[w].files = <<ReadmeMd, Makefile>>
    /\ Has(slots[w].log, "listed")
    /\ slots[w].saved = "applied"
    /\ RecordOf(slots[w].reviewId).status = "completed"
    /\ RecordOf(slots[w].reviewId).review.score = 100

\* every content fetch of the run has failed (there was at least one)
EveryFetchFailed(s) ==
  /\ s.fetched # <<>>
  /\ \A i \in DOMAIN s.fetched : s.fetched[i] = "fail"

\* C13: if at least one changed file is allow-listed but every content fetch
\* fails, the run makes no generation call and writes status completed with
\* score 0 and the summary "Unable to fetch file contents for review"; the
\* record holds them once the store has applied the write.
C13_AllFetchesFailedCompletes0 ==
  \A w \in DOMAIN slots :
    LET s == slots[w]
        l == s.log
    IN
    (Has(l, "listed") /\ ~NoAllowListedFile(s.files) /\ EveryFetchFailed(s)) =>
      /\ s.pc \in {"saving", "done"}
      /\ s.write # None
      /\ s.write.status = "completed"
      /\ s.write.review.score = 0
      /\ s.write.review.summary = "Unable to fetch file contents for review"
      /\ s.write.review.summary # ""
      /\ l[Len(l)] = "write:completed"
      /\ ~Has(l, "generate") /\ ~Has(l, "comment")
      /\ s.saved = "applied" =>
           /\ RecordOf(s.reviewId).status = "completed"
           /\ RecordOf(s.reviewId).review = s.write.review

\* both code files of a three-file pull request could not be fetched and the
\* record was completed with score 0
C13_Witness ==
  \E w \in DOMAIN slots :
    /\ slots[w].pc = "done"
    /\ slots[w].files = <<MainTs, ReadmeMd, AppJS>>
    /\ slots[w].fetched = <<"fail", "fail">>
    /\ slots[w].saved = "applied"
    /\ RecordOf(slots[w].reviewId).status = "completed"
    /\ RecordOf(slots[w].reviewId).review.score = 0

\* C14: a failed comment post changes nothing on the record: the run ends
\* without writing status failed, and the record keeps status completed and the
\* generated result that the store applied before the post.
C14_CommentFailureKeepsCompleted ==
  \A w \in DOMAIN slots :
    LET s == slots[w] IN
    Has(s.log, "comment:failed") =>
      /\ s.pc = "done"
      /\ ~Has(s.log, "write:failed")
      /\ Count(s.log, "write:completed") = 1
      /\ s.log[Len(s.log)] = "comment:failed"
      /\ s.write.status = "completed"
      /\ s.saved = "applied" =>
           /\ RecordOf(s.reviewId).status = "completed"
           /\ RecordOf(s.reviewId).review = s.write.review

\* the generated result was stored, then the comment post failed
C14_Witness ==
  \E w \in DOMAIN slots :
    /\ Has(slots[w].log, "comment:failed")
    /\ slots[w].saved = "applied"
    /\ RecordOf(slots[w].reviewId).status = "completed"
    /\ RecordOf(slots[w].reviewId).review = ParsedReview

\* C15: in every reachable state a record whose status is completed or failed
\* carries a result, and a record whose status is failed carries a result with
\* score 0.
C15_TerminalRecordHasResult ==
  \A r \in reviews :
    /\ r.status \in {"pending", "completed", "failed"}
    /\ r.status \in {"completed", "failed"} => r.review # None
    /\ r.status = "failed" => (r.review # None /\ r.review.score = 0)

\* a record is failed with its placeholder result while a later delivery for
\* the same pull request has a run in progress
C15_Witness ==
  \E r \in reviews, w \in DOMAIN slots :
    /\ r.status = "failed"
    /\ r.review = FailedReview
    /\ slots[w].reviewId = r.id
    /\ slots[w].pc \in {"direct", "lookup", "exchange", "listing", "contents", "generating"}

\* C16: the score of every Structured Result that parseAIResponse returns is a
\* number in 0..100, whatever the generator emitted as the score
C16_ReturnedScoreInRange ==
  parser.result # None =>
    /\ parser.result.score.t = "number"
    /\ parser.result.score.n \in 0..100

\* every element of a mapped list carries its defaulted properties
ItemsDefaulted(items) ==
  \A i \in DOMAIN items :
    /\ Truthy(items[i].id) /\ Truthy(items[i].type) /\ Truthy(items[i].title)
    /\ Truthy(items[i].description) /\ Truthy(items[i].severity)

\* a Structured Result with no property left undefined
FullyDefaulted(r) ==
  /\ Truthy(r.summary)
  /\ r.score.t \in {"number", "NaN"}
  /\ ItemsDefaulted(r.suggestions)
  /\ ItemsDefaulted(r.issues)
  /\ Truthy(r.positiveAspects)

\* C17: parseAIResponse never raises; it returns a fully defaulted Structured
\* Result or the fallback result, and the fallback for a text without JSON
C17_ParserNeverRaises ==
  parser.result # None =>
    /\ ~parser.result.threw
    /\ parser.result = fallbackReview \/ FullyDefaulted(parser.result)
    /\ parser.object = None => parser.result = fallbackReview
    /\ fallbackReview.score = Num(0)
    /\ fallbackReview.suggestions = <<>> /\ fallbackReview.issues = <<>>
    /\ fallbackReview.positiveAspects = Arr(<<>>)
    /\ Truthy(fallbackReview.summary)

\* an error was raised inside the outer try of parseAIResponse, and the call
\* has returned
C17_Witness ==
  /\ parser.result # None
  /\ parseBody(parser.response) = Raised
  /\ parser.object # None

\* C18: a structured object text wrapped in code-fence markers and/or preceded
\* by a reasoning block parses to the same result as the text alone
C18_WrappingIsTransparent ==
  (parser.result # None /\ parser.wrap \in FenceWraps /\ parser.object \in Objects) =>
    parser.result = parseAIResponse(Text(<<JsonTok(parser.object)>>))

\* a reasoning block and a plain fence around an object that parses to a
\* result other than the fallback
C18_Witness ==
  /\ parser.result # None
  /\ parser.wrap = "think+fence"
  /\ parser.object \in Objects
  /\ parser.result # fallbackReview
  /\ parser.result.suggestions # <<>>

\* an authenticated remote call of the run is in flight: the direct token
\* exchange, the installation lookup, or the Resolver's token exchange
AuthenticatedCalls == {"direct", "lookup", "exchange"}

\* C19: every assertion expires 600 seconds after its issue time, and a remote
\* call in flight carries an assertion signed for it at the time of the call,
\* by a signing that no other call of the run uses
C19_AssertionPerCall ==
  \A w \in DOMAIN slots :
    LET s == slots[w] IN
    /\ \A i \in DOMAIN s.jwts :
         /\ s.jwts[i].jwt.exp = s.jwts[i].jwt.iat + 600
         /\ s.jwts[i].jwt.iat = s.jwts[i].at \div 1000
         /\ \A j \in DOMAIN s.jwts : j # i => s.jwts[j].signing # s.jwts[i].signing
    /\ s.pc \in AuthenticatedCalls =>
         /\ s.jwts # <<>>
         /\ s.jwts[Len(s.jwts)].call = s.pc
         /\ s.jwts[Len(s.jwts)].at <= now

\* the Resolver's token exchange is in flight after a failed direct exchange
\* and a lookup, each call with its own assertion, the last one signed later
\* than the first
C19_Witness ==
  \E w \in DOMAIN slots :
    /\ slots[w].pc = "exchange"
    /\ Len(slots[w].jwts) = 3
    /\ slots[w].jwts[1].call = "direct"
    /\ slots[w].jwts[2].call = "lookup"
    /\ slots[w].jwts[3].jwt.iat > slots[w].jwts[1].jwt.iat

\* C20: with a webhook secret configured, a request whose signature header is
\* not the HMAC of its body (absent, forged or malformed) leaves the
\* installation cache as it was
C20_UnsignedRequestChangesNothing ==
  [][(WebhookStep /\ lastResponse'.secretSet /\ lastResponse'.sig # "valid")
       => installationCache' = installationCache]_vars

\* C21: the handler's write of the pending record is applied before it starts
\* the workflow; a workflow starts only from there, once per accepted event, and
\* the response is returned while the workflow is still running
C21_PendingThenStartThenRespond ==
  [][\A w \in DOMAIN slots :
       /\ (slots[w].pc = "write" /\ slots'[w].pc = "written") =>
            \E r \in reviews' : r.id = slots'[w].reviewId /\ r.status = "pending"
       /\ (slots[w].pc \notin RunPcs /\ slots'[w].pc \in RunPcs) =>
            /\ slots[w].pc = "written"
            /\ \E r \in reviews : r.id = slots[w].reviewId
       /\ (slots[w].pc = "written" /\ slots'[w].pc # "written") => slots'[w].pc \in RunPcs
       /\ slots'[w].pc \in RunPcs => slots'[w].response = "Review triggered"]_vars

\* the response has been returned while the run it started awaits the
\* changed-file listing
C21_Witness ==
  \E w \in DOMAIN slots :
    /\ slots[w].pc = "listing"
    /\ slots[w].response = "Review triggered"
    /\ \E r \in reviews : r.id = slots[w].reviewId /\ r.status = "pending"

\* C22: within one run there are at most one direct and one Resolver token
\* exchange, one installation lookup, one changed-file listing, one content
\* fetch per allow-listed file, one generation call and one comment post
C22_NoRetryBeyondOneFallback ==
  \A w \in DOMAIN slots :
    LET log == slots[w].log IN
    /\ Count(log, "direct") <= 1
    /\ Count(log, "exchange") <= 1
    /\ Count(log, "lookup") <= 1
    /\ Count(log, "list") <= 1
    /\ Count(log, "content") <= Len(codeFilesOf(slots[w].files))
    /\ Count(log, "generate") <= 1
    /\ Count(log, "comment") <= 1

\* a run that used the fallback after a failed direct exchange and went
\* through every remote call has ended
C22_Witness ==
  \E w \in DOMAIN slots :
    LET log == slots[w].log IN
    /\ slots[w].pc = "done"
    /\ Has(log, "direct:failed") /\ Has(log, "lookup") /\ Has(log, "exchange")
    /\ Has(log, "list") /\ Count(log, "content") = 2
    /\ Has(log, "generate") /\ Has(log, "comment")

\* the k-th smallest element of a set of numbers
RECURSIVE Nth(_, _)
Nth(set, k) ==
  LET least == CHOOSE x \in set : \A y \in set : x <= y IN
  IF k = 1 THEN least ELSE Nth(set \ {least}, k - 1)

\* C23: the files handed to the generation call are the allow-listed files
\* whose content fetch succeeded, in the order of the changed-file list,
\* whatever order the fetches settled in; a failed fetch does not fail the run
C23_GivenFilesInListOrder ==
  \A w \in DOMAIN slots :
    LET s == slots[w]
        code == SelectSeq(s.files, isCodeFile)
        okAt == {i \in DOMAIN s.fetched : s.fetched[i] = "ok"}
    IN
    Has(s.log, "generate") =>
      /\ Len(s.given) = Cardinality(okAt)
      /\ \A k \in DOMAIN s.given : s.given[k] = code[Nth(okAt, k)]
      /\ (s.pc = "generating" => ~Has(s.log, "write:failed"))

\* three fetches settled last-to-first, the middle one failed, and the
\* generation call is in flight
C23_Witness ==
  \E w \in DOMAIN slots :
    /\ slots[w].pc = "generating"
    /\ slots[w].arrived = <<3, 2, 1>>
    /\ slots[w].fetched = <<"ok", "fail", "ok">>
    /\ slots[w].given = <<MainTs, UtilPy>>

\* C24: when an owner was invalidated, no resolve of it has started since and
\* none of its lookups is still in flight, the cache holds no entry for it
\* (such an entry could only come from a lookup started before the invalidation)
C24_InvalidationNotUndone ==
  \A o \in Owners :
    (/\ pendingInval[o] # "none"
     /\ \A c \in DOMAIN calls : ~(calls[c].pc = "fetching" /\ calls[c].owner = o))
      => EntriesOf(installationCache, o) = {}

\* C25: when a synchronize event arrived while an earlier run for the record
\* was in progress, then once every request and run has ended the record holds
\* the status and result written by the run that started most recently
C25_LastStartedRunWins ==
  (\A w \in DOMAIN slots : slots[w].pc \in {"idle", "done"}) =>
    \A w \in DOMAIN slots :
      (slots[w].latest /\ slots[w].overlap /\ slots[w].wrote # None) =>
        \A r \in reviews :
          r.status = slots[w].wrote.status /\ r.review = slots[w].wrote.review

\* the lookups in flight for an owner
LookupsInFlight(o) == {c \in DOMAIN calls : calls[c].pc = "fetching" /\ calls[c].owner = o}

\* C26: concurrent resolves of one owner have at most one remote lookup in
\* flight between them
C26_AtMostOneLookupInFlight ==
  \A o \in Owners : Cardinality(LookupsInFlight(o)) <= 1

\* C26 (amended): on a configured app, every resolve that finds no valid entry
\* for its owner issues its own lookup, whether or not another resolve of that
\* owner has a lookup in flight, and no call is answered without either a
\* valid entry or a lookup of its own. Once a lookup for an owner has succeeded
\* and the owner has not been invalidated since, the cache holds exactly one
\* entry for the owner, whose id is the one returned by the successful lookup
\* that completed last; without such a lookup (every lookup failed) it holds
\* none.
C26_OneEntryFromLastLookup ==
  /\ [](\A c \in DOMAIN calls :
          /\ calls[c].pc = "fetching" => (configured /\ ~calls[c].hit /\ calls[c].lookups = 1)
          /\ calls[c].pc = "returned" =>
                \/ calls[c].hit /\ calls[c].lookups = 0
                \/ ~calls[c].hit /\ calls[c].lookups = 1)
  /\ [][\A c \in DOMAIN calls :
         (/\ StartStep(c)
          /\ configured
          /\ ~cacheValid(installationCache, cacheKey(calls'[c].owner, calls'[c].repo), now)) =>
           /\ calls'[c].pc = "fetching"
           /\ calls'[c].lookups = 1]_vars
  /\ [](\A o \in Owners :
          /\ lastStore[o] # None => Cardinality(EntriesOf(installationCache, o)) = 1
          /\ lastStore[o] = None => EntriesOf(installationCache, o) = {}
          /\ \A k \in EntriesOf(installationCache, o) :
               /\ installationCache[k].installationId = lastStore[o].id
               /\ storedAt[o][installationCache[k].installationId] # -1)

\* two resolves of one owner overlapped, each issued its lookup, the lookups
\* returned different ids, and the cache holds the one entry of the later
C26_Witness ==
  \E c, d \in DOMAIN calls :
    /\ c # d
    /\ calls[c].pc = "returned" /\ calls[d].pc = "returned"
    /\ calls[c].owner = calls[d].owner
    /\ calls[c].lookups = 1 /\ calls[d].lookups = 1
    /\ calls[c].result # calls[d].result
    /\ Cardinality(EntriesOf(installationCache, calls[c].owner)) = 1
    /\ lastStore[calls[c].owner] # None
    /\ lastStore[calls[c].owner].id = calls[d].result

\* C27: for a valid object followed by further text that contains braces, the
\* result is the one built from that first object
C27_FirstObjectIsExtracted ==
  (/\ parser.result # None
   /\ parser.wrap \in {"then:braces", "twice"}
   /\ parser.object \in Objects) =>
    parser.result = parseAIResponse(Text(<<JsonTok(parser.object)>>))

\* the terminal status writes a run has issued
TerminalWrites(log) == Count(log, "write:completed") + Count(log, "write:failed")

\* C28: a run issues at most one terminal status write, none after a completed
\* one, it has issued exactly one when it has ended, and every run that has
\* started ends
C28_RunEndsWithOneTerminalWrite ==
  /\ [](\A w \in DOMAIN slots :
          LET log == slots[w].log IN
          /\ TerminalWrites(log) <= 1
          /\ Has(log, "write:completed") => ~Has(log, "write:failed")
          /\ (slots[w].pc = "done" /\ Has(log, "start")) => TerminalWrites(log) = 1)
  /\ \A w \in {"w1"} :
       (slots[w].pc \in RunPcs) ~>
         (slots[w].pc = "done" /\ TerminalWrites(slots[w].log) = 1)

\* a run has ended whose completed write was swallowed by the store and whose
\* comment post failed, with that one write only
C28_Witness ==
  \E w \in DOMAIN slots :
    /\ slots[w].pc = "done"
    /\ Has(slots[w].log, "comment:failed")
    /\ slots[w].saved = "swallowed"
    /\ Count(slots[w].log, "write:completed") = 1
    /\ Count(slots[w].log, "write:failed") = 0

\* C29: a run posts its comment only after the generation call gave it a
\* result and its completed write was applied by the store, with the bearer
\* token it acquired; a run that short-circuits or fails posts none
C29_CommentAfterAppliedWrite ==
  \A w \in DOMAIN slots :
    LET s == slots[w] IN
    Has(s.log, "comment") =>
      /\ Has(s.log, "generate") /\ ~Has(s.log, "generate:failed")
      /\ ~Has(s.log, "write:failed")
      /\ s.write # None /\ s.write.status = "completed"
      /\ s.write.review \notin {NoCodeReview, FetchFailedReview}
      /\ s.token \in {"direct", "resolver"}
      /\ s.saved = "applied"

\* the cache key of the repository the review runs are for
RunKey == cacheKey(Repository.full_name[1], Repository.full_name[2])

\* what an invalidation can leave of a cache
ClearResults(cache) ==
  {clearInstallationCache(cache, o) : o \in Owners}
    \cup {clearAllInstallationCache(cache)}
    \cup {clearForRepositories(cache, repositories) : repositories \in RepoLists}

\* C30: the cache changes only by the store of a lookup that succeeded inside
\* a resolve and by the invalidations; a token exchange, failed or not, leaves
\* it as it is, and a resolve never looks up while the entry is within its 24
\* hours
C30_OnlyLookupAndInvalidateChangeCache ==
  [][\A w \in DOMAIN slots :
       /\ installationCache' # installationCache =>
            \/ /\ slots[w].pc = "lookup" /\ slots'[w].pc = "exchange"
               /\ \E id \in InstallIds :
                    installationCache' = cacheStore(installationCache, RunKey, id, now)
            \/ /\ slots'[w] = slots[w]
               /\ installationCache' \in ClearResults(installationCache)
       /\ (slots[w].pc \in {"direct", "exchange"} /\ slots'[w].pc # slots[w].pc) =>
            installationCache' = installationCache
       /\ (slots[w].pc # "lookup" /\ slots'[w].pc = "lookup") =>
            ~cacheValid(installationCache, RunKey, now)]_vars

\* a run's token exchange for the cached id has failed, no lookup was made,
\* and the entry is still in the cache and valid
C30_Witness ==
  \E w \in DOMAIN slots :
    /\ Has(slots[w].log, "exchange")
    /\ ~Has(slots[w].log, "lookup")
    /\ Has(slots[w].log, "resolver:failed")
    /\ cacheValid(installationCache, RunKey, now)

====
